---- MODULE Spec2Model ----
(***************************************************************************)
(* Model of the audiobook download pipeline of audible-web-downloader:     *)
(* the persistent queue store (DownloadQueueManager), the library ledger   *)
(* (library.json, one in-memory copy per AudiobookDownloader), the         *)
(* per-item pipeline (download_book / _process_book_download) with its     *)
(* two semaphores, and the batch orchestrator (download_books).            *)
(*                                                                         *)
(* One step of the model is the code a coroutine runs between two          *)
(* suspension points (an await that really waits): asyncio runs that code  *)
(* without interleaving.  A process crash may fall between any two steps,  *)
(* and also inside a ledger save or an external tool run.                  *)
(***************************************************************************)
EXTENDS Integers, Sequences, FiniteSets, TLC

(* ------------------------------ bounds --------------------------------- *)
\* number of catalog items submitted over all download_books calls
NumItems == 2
\* largest max_retries argument explored (0..MaxRetries)
MaxRetries == 2
\* largest max_concurrent_downloads explored (1..MaxConcurrent)
MaxConcurrent == 2
\* largest clock value (seconds) the store specification explores
MaxTime == 1

Items == 1..NumItems
\* two AudiobookDownloader instances: two download_books calls in one process
Downloaders == {1, 2}
Titles == 1..(NumItems + 1)

(* --------------------------- DownloadState ----------------------------- *)
PENDING == "pending"
RETRYING == "retrying"
LICENSE_REQUESTED == "license_requested"
LICENSE_GRANTED == "license_granted"
DOWNLOADING == "downloading"
DOWNLOAD_COMPLETE == "download_complete"
DECRYPTING == "decrypting"
CONVERTED == "converted"
ERROR == "error"

\* 'current_batch_id': None
NoBatch == -1

VARIABLES
    alive,                    \* the process is running
    now,                      \* time.time(), whole seconds
    queue,                    \* DownloadQueueManager._queue (process singleton)
    queue_file,               \* config/download_queue.json
    library_state,            \* AudiobookDownloader.library_state, per instance
    library_file,             \* config/library.json
    download_semaphore,       \* free permits, per instance
    decrypt_semaphore,        \* free permits, per instance
    auth,                     \* the instance has an authenticator
    batch,                    \* download_books call: "idle", "running", "returned"
    owner,                    \* the download_books call an item is submitted to
    max_retries,              \* argument of download_books
    max_concurrent_downloads, \* argument of AudiobookDownloader.__init__
    cleanup_aax,              \* argument of download_books
    book_title,               \* book['title'] of each item (sanitized)
    results,                  \* the list download_books returned, per call
    pc,                       \* where each item's download_book coroutine stands
    attempt,                  \* loop variable of download_book
    result,                   \* what download_book returned, per item
    aaxc_file,                \* ciphertext in the temp directory, per title
    simple_voucher_file,      \* decrypted voucher file, per title
    temp_m4b_file,            \* conversion output in the temp directory
    m4b_file,                 \* file at the final library path
    nRetrying,                \* RETRYING writes of the current download_book call
    nError,                   \* ERROR writes of the current download_book call
    nFailed,                  \* failed attempts of the current download_book call
    early,                    \* the early return download_book took, per item
    fn_args,                  \* arguments of a function called on its own
    fn_result                 \* what that function returned

vars == <<alive, now, queue, queue_file, library_state, library_file,
          download_semaphore, decrypt_semaphore, auth, batch, owner,
          max_retries, max_concurrent_downloads, cleanup_aax, book_title, results,
          pc, attempt, result,
          aaxc_file, simple_voucher_file, temp_m4b_file, m4b_file,
          nRetrying, nError, nFailed, early, fn_args, fn_result>>

storeVars == <<queue, queue_file>>
libVars == <<library_state, library_file>>
fileVars == <<aaxc_file, simple_voucher_file, temp_m4b_file, m4b_file>>
argVars == <<auth, owner, max_retries, max_concurrent_downloads, cleanup_aax,
             book_title, fn_args, fn_result>>
\* what no step of a running pipeline writes, but the start of download_book
paramVars == <<argVars, early>>
histVars == <<nRetrying, nError, nFailed>>

(* ------------------------- Python dictionaries ------------------------- *)
\* {}
EmptyDict == <<>>

\* dict.update: the fields of u replace or extend those of e
\* An update that replaces the dict by the new fields
DictReplace(e, u) == u

DictUpdate(e, u) == u @@ e

\* d[key] = value
DictSet(d, key, value) == (key :> value) @@ d

\* A pop that removes nothing
DictDelNothing(d, key) == d

\* del d[key] / d.pop(key, None)
DictDel(d, key) == [k \in (DOMAIN d) \ {key} |-> d[k]]

(* ------------------------------ files ---------------------------------- *)
\* a JSON file on disk: missing, cut short by an interrupted write, or whole
AbsentFile == [kind |-> "absent"]
TruncatedFile == [kind |-> "truncated"]
JsonFile(data) == [kind |-> "json", data |-> data]

(* ------------------------ DownloadQueueManager ------------------------- *)
\* 'batch_start_time': None
NoTime == -1
\* metadata.get('title', 'Unknown')
UnknownTitle == 0
\* self.account_name of an instance
AccountName(d) == d

\* dict.get(key, default)
DictGet(d, key, default) == IF key \in DOMAIN d THEN d[key] ELSE default

\* The ledger: the entries by identifier, and the value of the reserved key
\* '_batch_info' (EmptyDict when the key is missing).
EmptyLedger == [entries |-> EmptyDict, batch_info |-> EmptyDict]

FreshBatchInfo ==
    [current_batch_id |-> NoBatch, batch_complete |-> FALSE,
     batch_start_time |-> NoTime]

\* _load_queue: a missing or unparsable file gives an empty ledger
load_queue(file) == IF file.kind = "json" THEN file.data ELSE EmptyLedger

\* DownloadQueueManager.__init__
QueueManagerInit(file) ==
    LET q == load_queue(file)
    IN  IF q.batch_info = EmptyDict
        THEN [q EXCEPT !.batch_info = FreshBatchInfo]
        ELSE q

\* The queue manager and its file: s.mem is _queue, s.file the JSON file.
Store(mem, file) == [mem |-> mem, file |-> file]

\* _save_queue when the disk takes the write: the file then holds the whole
\* in-memory ledger.  (The except IOError branch is DiskWrite, which the
\* calls made from outside the pipeline explore; the pipeline's own writes
\* go to a disk that takes every write.)
save_queue(s) == Store(s.mem, JsonFile(s.mem))

\* get_download
get_download(q, asin) == DictGet(q.entries, asin, EmptyDict)

\* update_download
update_download(s, asin, updates, t) ==
    LET q == s.mem
        old == DictGet(q.entries, asin, EmptyDict)
        new == DictSet(DictUpdate(old, updates), "last_updated", t)
    IN  save_queue(Store([q EXCEPT !.entries = DictSet(q.entries, asin, new)],
                         s.file))

\* f"batch_{int(time.time())}"
generate_batch_id(t) == t

\* add_to_queue
add_to_queue(s, asin, title, metadata, t) ==
    LET q == s.mem
        bi == q.batch_info
        startNew == \/ DictGet(bi, "current_batch_id", NoBatch) = NoBatch
                    \/ DictGet(bi, "batch_complete", FALSE)
        bi2 == IF startNew
               THEN [current_batch_id |-> generate_batch_id(t),
                     batch_complete |-> FALSE,
                     batch_start_time |-> t]
               ELSE bi
        entry == DictUpdate([asin |-> asin, title |-> title, state |-> PENDING,
                             added_at |-> t, last_updated |-> t,
                             batch_id |-> bi2["current_batch_id"]], metadata)
    IN  save_queue(Store([entries |-> DictSet(q.entries, asin, entry),
                          batch_info |-> bi2], s.file))

\* remove_from_queue
remove_from_queue(s, asin) ==
    IF asin \in DOMAIN s.mem.entries
    THEN save_queue(Store([s.mem EXCEPT !.entries = DictDel(s.mem.entries, asin)],
                          s.file))
    ELSE s

\* A count that takes failed items for queued ones
QueuedStatesWithError == {PENDING, RETRYING, ERROR}

QueuedStates == {PENDING, RETRYING}
ActiveStates == {LICENSE_REQUESTED, LICENSE_GRANTED, DOWNLOADING,
                 DOWNLOAD_COMPLETE, DECRYPTING}

\* the entries get_statistics counts: those of the current batch
CurrentBatchEntries(q) ==
    {a \in DOMAIN q.entries :
        DictGet(q.entries[a], "batch_id", NoBatch)
            = DictGet(q.batch_info, "current_batch_id", NoBatch)}

CountIn(q, states) ==
    Cardinality({a \in CurrentBatchEntries(q) :
                    DictGet(q.entries[a], "state", "") \in states})

\* get_statistics: whether this call flips the batch to complete
StatisticsFlips(q) ==
    /\ Cardinality(CurrentBatchEntries(q)) > 0
    /\ CountIn(q, ActiveStates) = 0
    /\ CountIn(q, QueuedStates) = 0
    /\ ~DictGet(q.batch_info, "batch_complete", FALSE)

\* get_statistics, the store it leaves
statistics_store(s) ==
    IF StatisticsFlips(s.mem)
    THEN save_queue(Store([s.mem EXCEPT !.batch_info =
                              DictSet(s.mem.batch_info, "batch_complete", TRUE)],
                          s.file))
    ELSE s

\* get_statistics, the report it returns
get_statistics(q) ==
    [active |-> CountIn(q, ActiveStates),
     queued |-> CountIn(q, QueuedStates),
     completed |-> CountIn(q, {CONVERTED}),
     failed |-> CountIn(q, {ERROR}),
     total_downloads |-> Cardinality(CurrentBatchEntries(q)),
     batch_complete |-> \/ DictGet(q.batch_info, "batch_complete", FALSE)
                        \/ StatisticsFlips(q),
     batch_id |-> DictGet(q.batch_info, "current_batch_id", NoBatch)]

(* ---------------- AudiobookDownloader: state bookkeeping --------------- *)
\* set_download_state
set_download_state(s, d, asin, state, metadata, t) ==
    LET existing == get_download(s.mem, asin)
        isNew == existing = EmptyDict
        s1 == IF isNew
              THEN add_to_queue(s, asin, DictGet(metadata, "title", UnknownTitle),
                                [downloaded_by_account |-> AccountName(d)], t)
              ELSE s
        base == DictUpdate([state |-> state, timestamp |-> t, asin |-> asin],
                           metadata)
        update_data == IF isNew \/ "downloaded_by_account" \notin DOMAIN existing
                       THEN DictSet(base, "downloaded_by_account", AccountName(d))
                       ELSE base
    IN  update_download(s1, asin, update_data, t)

\* update_download_progress
update_download_progress(s, asin, downloaded_bytes, t) ==
    update_download(s, asin,
        [downloaded_bytes |-> downloaded_bytes, progress_timestamp |-> t], t)

(* --------------------------- library ledger ---------------------------- *)
\* _load_library_state: a missing or unparsable file gives an empty ledger
load_library_state(file) == IF file.kind = "json" THEN file.data ELSE EmptyDict

\* An instance's ledger and the file: l.mem is library_state, l.file the file.
\* _save_library_state: the file then holds this instance's whole ledger
save_library_state(l) == Store(l.mem, JsonFile(l.mem))

\* An add_to_library that records nothing
add_to_library_nothing(l, d, asin, title, file_path, t) == l

\* add_to_library
add_to_library(l, d, asin, title, file_path, t) ==
    save_library_state(Store(
        DictSet(l.mem, asin,
            [asin |-> asin, title |-> title, file_path |-> file_path,
             state |-> CONVERTED, timestamp |-> t,
             downloaded_by_account |-> AccountName(d)]),
        l.file))

\* A lookup that finds nothing
get_library_entry_missing(lib, asin) == EmptyDict

\* get_library_entry
get_library_entry(lib, asin) == DictGet(lib, asin, EmptyDict)

(* ------------------------------ pipeline ------------------------------- *)
\* what download_book has returned: nothing yet, a path, None, or an
\* exception that left the coroutine
NotReturned == [kind |-> "running"]
ReturnedNone == [kind |-> "None"]
ReturnedException == [kind |-> "exception"]
ReturnedPathAsNone(p) == [kind |-> "None"]
ReturnedPath(p) == [kind |-> "path", path |-> p]

\* the queue manager and its file, as the running process sees them
QS == Store(queue, queue_file)
\* instance d's library ledger and the (shared) library file
LS(d) == Store(library_state[d], library_file)

\* paths['m4b_file']: the final library path, decided by the title
FinalPath(i) == book_title[i]
\* paths['temp_dir'] and the temporary files in it, decided by the title
TempKey(i) == book_title[i]

Exists(f) == f # "absent"

\* A release that hands back two permits, an acquire that takes none
SemReleaseTwice(sem, d) == [sem EXCEPT ![d] = @ + 2]
SemReleaseNone(sem, d) == sem
SemAcquireNone(sem, d) == sem

\* Semaphore.release / Semaphore.acquire on instance d
SemRelease(sem, d) == [sem EXCEPT ![d] = @ + 1]
SemAcquire(sem, d) == [sem EXCEPT ![d] = @ - 1]

\* str(e) and type(e).__name__ of the caught exception
ErrorFields == [error |-> "message", error_type |-> "Exception"]

\* The coroutine suspends at `label`, holding the download permit.
Suspend(i, s, sem, label) ==
    /\ pc' = [pc EXCEPT ![i] = label]
    /\ \E st \in {s} : queue' = st.mem /\ queue_file' = st.file
    /\ download_semaphore' = sem
    /\ UNCHANGED <<attempt, result, nRetrying, nError, nFailed>>

\* download_book returns `r`; sem is the download semaphore as the return
\* leaves it (the permit released when the return is from inside `async with`).
Return(i, s, sem, r) ==
    /\ pc' = [pc EXCEPT ![i] = "done"]
    /\ result' = [result EXCEPT ![i] = r]
    /\ \E st \in {s} : queue' = st.mem /\ queue_file' = st.file
    /\ download_semaphore' = sem
    /\ UNCHANGED <<attempt, nRetrying, nError, nFailed>>

\* The handler's test off by one
LastAttemptOffByOne(i) == ~(attempt[i] < max_retries)

\* `if attempt < max_retries - 1: ... else:` of the handler
LastAttempt(i) == ~(attempt[i] < max_retries - 1)

\* The `except Exception` handler of download_book's retry loop.
Raise(i, s, sem) ==
    LET d == owner[i]
    IN  /\ nFailed' = [nFailed EXCEPT ![i] = @ + 1]
        /\ UNCHANGED attempt
        /\ IF ~LastAttempt(i)
           THEN LET s1 == set_download_state(s, d, i, RETRYING,
                              DictUpdate(ErrorFields,
                                  [attempt |-> attempt[i] + 1,
                                   max_retries |-> max_retries]), now)
                IN  /\ \E st \in {s1} : queue' = st.mem /\ queue_file' = st.file
                    /\ pc' = [pc EXCEPT ![i] = "sleep"]
                    /\ download_semaphore' = sem
                    /\ nRetrying' = [nRetrying EXCEPT ![i] = @ + 1]
                    /\ UNCHANGED <<result, nError>>
           ELSE LET s1 == set_download_state(s, d, i, ERROR,
                              DictUpdate(ErrorFields,
                                  [failed_at |-> now,
                                   attempts |-> max_retries]), now)
                IN  /\ \E st \in {s1} : queue' = st.mem /\ queue_file' = st.file
                    /\ pc' = [pc EXCEPT ![i] = "done"]
                    /\ result' = [result EXCEPT ![i] = ReturnedNone]
                    /\ download_semaphore' = SemRelease(sem, d)
                    /\ nError' = [nError EXCEPT ![i] = @ + 1]
                    /\ UNCHANGED nRetrying

\* _cleanup_temp_files on a file of the temp directory
CleanedUp(f, i, gone) == IF cleanup_aax THEN [f EXCEPT ![TempKey(i)] = gone] ELSE f

\* The tail of _process_book_download: _move_to_library, add_to_library,
\* CONVERTED, _cleanup_temp_files, return the final path.
\* aaxc and voucher are the temp files as the earlier part of the step left them.
MoveAndFinish(i, s, sem, aaxc, voucher) ==
    LET d == owner[i]
        l1 == add_to_library(LS(d), d, i, book_title[i], FinalPath(i), now)
        s1 == set_download_state(s, d, i, CONVERTED,
                  [title |-> book_title[i], file_path |-> FinalPath(i)], now)
    IN  /\ m4b_file' = [m4b_file EXCEPT ![FinalPath(i)] = temp_m4b_file[TempKey(i)]]
        /\ temp_m4b_file' = [temp_m4b_file EXCEPT ![TempKey(i)] = "absent"]
        /\ library_state' = [library_state EXCEPT ![d] = l1.mem]
        /\ library_file' = l1.file
        /\ aaxc_file' = CleanedUp(aaxc, i, "absent")
        /\ simple_voucher_file' = CleanedUp(voucher, i, FALSE)
        /\ Return(i, s1, SemRelease(sem, d), ReturnedPath(FinalPath(i)))

\* A pipeline that waits for a license answer again once the ciphertext is
\* there
ConvertCheckRefetch(i, s, sem, aaxc, voucher) ==
    /\ Suspend(i, s, sem, "license")
    /\ aaxc_file' = aaxc
    /\ simple_voucher_file' = voucher
    /\ UNCHANGED <<temp_m4b_file, m4b_file, libVars>>

\* `if not temp_m4b_file.exists()`: wait for the convert permit, or go
\* straight to the move when a converted file is already there.
ConvertCheck(i, s, sem, aaxc, voucher) ==
    IF ~Exists(temp_m4b_file[TempKey(i)])
    THEN /\ Suspend(i, s, sem, "wait_decrypt")
         /\ aaxc_file' = aaxc
         /\ simple_voucher_file' = voucher
         /\ UNCHANGED <<temp_m4b_file, m4b_file, libVars>>
    ELSE MoveAndFinish(i, s, sem, aaxc, voucher)


(* --------------------------- duplicate check --------------------------- *)
\* The title a number stands for, as _normalize_for_matching leaves it: a
\* sequence of words, a word below 10 being a numeral. VariantTitle is title 1
\* followed by a number (another edition of the same book); the other titles
\* share no word.
VariantTitle == NumItems + 1

_normalize_for_matching(t) ==
    IF t = 1 THEN <<10, 11>>
    ELSE IF t = VariantTitle THEN <<10, 11, 2>>
    ELSE <<10 * t, 10 * t + 1>>

\* `text1 in text2` on normalised texts
Contains(x, y) ==
    \E k \in 0..(Len(y) - Len(x)) : SubSeq(y, k + 1, k + Len(x)) = x

\* re.findall(r'\d+', text)
Numbers(x) == {x[k] : k \in {k \in 1..Len(x) : x[k] < 10}}

\* _calculate_similarity: Jaccard similarity of the word sets, plus 0.2 when
\* one text contains the other, plus 0.3 times the share of matching numbers,
\* at most 1.0; the score is the fraction num / den.
_calculate_similarity(text1, text2) ==
    LET words1 == {text1[k] : k \in 1..Len(text1)}
        words2 == {text2[k] : k \in 1..Len(text2)}
        intersection == Cardinality(words1 \cap words2)
        union == Cardinality(words1 \cup words2)
        substring_bonus == IF Contains(text1, text2) \/ Contains(text2, text1)
                           THEN 2 ELSE 0
        numbers1 == Numbers(text1)
        numbers2 == Numbers(text2)
        most == IF Cardinality(numbers1) >= Cardinality(numbers2)
                THEN Cardinality(numbers1) ELSE Cardinality(numbers2)
        matching == Cardinality(numbers1 \cap numbers2)
    IN  IF text1 = <<>> \/ text2 = <<>> THEN [num |-> 0, den |-> 1]
        ELSE IF text1 = text2 THEN [num |-> 1, den |-> 1]
        ELSE IF numbers1 # {} /\ numbers2 # {}
        THEN [num |-> 10 * intersection * most + substring_bonus * union * most
                        + 3 * matching * union,
              den |-> 10 * union * most]
        ELSE [num |-> 10 * intersection + substring_bonus * union,
              den |-> 10 * union]

\* `title_similarity >= threshold` with threshold=0.85
SimilarTitle(t1, t2) ==
    LET score == _calculate_similarity(_normalize_for_matching(t1),
                                       _normalize_for_matching(t2))
    IN  score.num * 100 >= 85 * score.den

\* _check_fuzzy_duplicate: the converted entries whose file exists and whose
\* title is similar (every instance here is configured with one library root)
fuzzy_duplicates(lib, t) ==
    {a \in DOMAIN lib :
        /\ DictGet(lib[a], "state", "") = CONVERTED
        /\ Exists(m4b_file[lib[a].file_path])
        /\ SimilarTitle(t, lib[a].title)}

(* ------------------------------- actions ------------------------------- *)
\* download_books up to asyncio.gather: construct the AudiobookDownloader
\* (semaphores, library ledger loaded from the file) and create one
\* download_book task per item.
download_books(d) ==
    /\ alive
    /\ batch[d] = "idle"
    /\ \E i \in Items : owner[i] = d
    /\ batch' = [batch EXCEPT ![d] = "running"]
    /\ library_state' = [library_state EXCEPT ![d] = load_library_state(library_file)]
    /\ download_semaphore' = [download_semaphore EXCEPT ![d] = max_concurrent_downloads]
    /\ decrypt_semaphore' = [decrypt_semaphore EXCEPT ![d] = 1]
    /\ UNCHANGED <<alive, now, storeVars, library_file, paramVars, results, pc,
                   attempt, result, fileVars, histVars>>

\* download_book from its first line to the retry loop: authentication,
\* _get_file_paths, the library short-circuit, the duplicate check, PENDING.
StartDownloadBook(i) ==
    LET d == owner[i]
        entry == get_library_entry(library_state[d], i)
        inLedger == DictGet(entry, "state", "") = CONVERTED
        stale == inLedger /\ ~Exists(m4b_file[entry.file_path])
                          /\ ~Exists(m4b_file[FinalPath(i)])
        \* library_state.pop(book_asin, None); _save_library_state()
        l1 == IF stale
              THEN save_library_state(Store(DictDel(library_state[d], i), library_file))
              ELSE LS(d)
        dups == fuzzy_duplicates(l1.mem, book_title[i])
        s1 == set_download_state(QS, d, i, PENDING, [title |-> book_title[i]], now)
    IN  /\ alive
        /\ batch[d] = "running"
        /\ pc[i] = "start"
        /\ UNCHANGED <<alive, now, decrypt_semaphore, argVars, batch, results,
                       fileVars>>
        /\ \E mkdirFails \in BOOLEAN :
            IF ~auth[d] \/ mkdirFails
            THEN \* raise Exception("Authentication required.") / OSError of the
                 \* mkdir in _get_file_paths
                 /\ Return(i, QS, download_semaphore, ReturnedException)
                 /\ UNCHANGED <<libVars, early>>
            ELSE IF inLedger /\ Exists(m4b_file[entry.file_path])
            THEN /\ Return(i, QS, download_semaphore, ReturnedPath(entry.file_path))
                 /\ early' = [early EXCEPT ![i] = "ledger"]
                 /\ UNCHANGED libVars
            ELSE IF inLedger /\ Exists(m4b_file[FinalPath(i)])
            THEN LET l2 == add_to_library(LS(d), d, i, book_title[i], FinalPath(i), now)
                 IN  /\ library_state' = [library_state EXCEPT ![d] = l2.mem]
                     /\ library_file' = l2.file
                     /\ early' = [early EXCEPT ![i] = "relocated"]
                     /\ Return(i, QS, download_semaphore, ReturnedPath(FinalPath(i)))
            ELSE /\ library_state' = [library_state EXCEPT ![d] = l1.mem]
                 /\ library_file' = l1.file
                 /\ early' = [early EXCEPT ![i] =
                                IF dups # {} THEN "duplicate"
                                ELSE IF stale THEN "stale" ELSE "none"]
                 /\ IF dups # {}
                    THEN \* the first match in the ledger's own order
                         \E a \in dups :
                             Return(i, QS, download_semaphore,
                                    ReturnedPath(l1.mem[a].file_path))
                    ELSE IF max_retries <= 0
                    THEN \* range(max_retries) is empty: falls to `return None`
                         Return(i, s1, download_semaphore, ReturnedNone)
                    ELSE Suspend(i, s1, download_semaphore, "acquire")

\* A pipeline that fetches whatever is there
NeedsFetchAlways(i) == TRUE

\* `if not aaxc_file.exists()`: the ciphertext has to be fetched
NeedsFetch(i) == ~Exists(aaxc_file[TempKey(i)])

\* `async with self.download_semaphore`, then _process_book_download up to
\* its first await: final file present, ciphertext missing, or present.
AcquireDownload(i) ==
    LET d == owner[i]
        sem == SemAcquire(download_semaphore, d)
    IN  /\ alive
        /\ pc[i] = "acquire"
        /\ download_semaphore[d] > 0
        /\ UNCHANGED <<alive, now, decrypt_semaphore, paramVars, batch, results>>
        /\ IF Exists(m4b_file[FinalPath(i)])
           THEN LET l1 == add_to_library(LS(d), d, i, book_title[i], FinalPath(i), now)
                    s1 == set_download_state(QS, d, i, CONVERTED,
                              [title |-> book_title[i], file_path |-> FinalPath(i)], now)
                IN  /\ library_state' = [library_state EXCEPT ![d] = l1.mem]
                    /\ library_file' = l1.file
                    /\ Return(i, s1, SemRelease(sem, d), ReturnedPath(FinalPath(i)))
                    /\ UNCHANGED fileVars
           ELSE IF NeedsFetch(i)
           THEN LET s1 == set_download_state(QS, d, i, LICENSE_REQUESTED, EmptyDict, now)
                IN  /\ Suspend(i, s1, sem, "license")
                    /\ UNCHANGED <<libVars, fileVars>>
           ELSE ConvertCheck(i, QS, sem, aaxc_file, simple_voucher_file)

\* The tasks gather has created all run their first step, in submission
\* order, before the event loop handles the completion of any await: a step
\* that follows a real wait finds every task of its call started.
AllStarted(d) == \A j \in Items : owner[j] = d => pc[j] # "start"

\* _get_download_license answers: granted, or denied / failed.
LicenseResponse(i) ==
    LET d == owner[i]
        s1 == set_download_state(QS, d, i, LICENSE_GRANTED, EmptyDict, now)
        s2 == set_download_state(s1, d, i, DOWNLOADING, EmptyDict, now)
    IN  /\ alive
        /\ pc[i] = "license"
        /\ AllStarted(owner[i])
        /\ UNCHANGED <<alive, now, decrypt_semaphore, paramVars, batch, results,
                       libVars, fileVars>>
        /\ \E response \in {"granted", "failed"} :
            IF response = "granted"
            THEN Suspend(i, s2, download_semaphore, "fetch")
            ELSE Raise(i, QS, download_semaphore)

\* _download_file receives a chunk: the ciphertext file is being written,
\* update_download_progress records the bytes so far.
FetchChunk(i) ==
    LET s1 == update_download_progress(QS, i, 1, now)
    IN  /\ alive
        /\ pc[i] = "fetch"
        /\ AllStarted(owner[i])
        /\ ~Exists(aaxc_file[TempKey(i)])
        /\ aaxc_file' = [aaxc_file EXCEPT ![TempKey(i)] = "partial"]
        /\ Suspend(i, s1, download_semaphore, "fetch")
        /\ UNCHANGED <<alive, now, decrypt_semaphore, paramVars, batch, results,
                       libVars, simple_voucher_file, temp_m4b_file, m4b_file>>

\* _download_file ends: the stream failed (the file is unlinked), ended with
\* no bytes (the empty file stays), or delivered the whole ciphertext; then
\* the voucher is decrypted (or not) and DOWNLOAD_COMPLETE is written.
FetchDone(i) ==
    LET d == owner[i]
        s1 == set_download_state(QS, d, i, DOWNLOAD_COMPLETE, EmptyDict, now)
    IN  /\ alive
        /\ pc[i] = "fetch"
        /\ AllStarted(owner[i])
        /\ UNCHANGED <<alive, now, decrypt_semaphore, paramVars, batch, results>>
        /\ \E outcome \in {"complete", "failed", "empty"},
              decrypted \in BOOLEAN :
            IF outcome = "failed"
            THEN /\ aaxc_file' = [aaxc_file EXCEPT ![TempKey(i)] = "absent"]
                 /\ Raise(i, QS, download_semaphore)
                 /\ UNCHANGED <<libVars, simple_voucher_file, temp_m4b_file, m4b_file>>
            ELSE IF outcome = "empty"
            THEN /\ aaxc_file[TempKey(i)] = "absent"
                 /\ aaxc_file' = [aaxc_file EXCEPT ![TempKey(i)] = "empty"]
                 /\ Raise(i, QS, download_semaphore)
                 /\ UNCHANGED <<libVars, simple_voucher_file, temp_m4b_file, m4b_file>>
            ELSE \* every byte arrived, in at least one chunk
                 /\ aaxc_file[TempKey(i)] = "partial"
                 /\ ConvertCheck(i, s1, download_semaphore,
                     [aaxc_file EXCEPT ![TempKey(i)] = "full"],
                     [simple_voucher_file EXCEPT ![TempKey(i)] = @ \/ decrypted])

\* `async with self.decrypt_semaphore`, DECRYPTING, then _convert_to_m4b up
\* to the start of the conversion tool: _check_ffmpeg and the voucher file.
AcquireDecrypt(i) ==
    LET d == owner[i]
        s1 == set_download_state(QS, d, i, DECRYPTING, EmptyDict, now)
    IN  /\ alive
        /\ pc[i] = "wait_decrypt"
        /\ decrypt_semaphore[d] > 0
        /\ UNCHANGED <<alive, now, paramVars, batch, results, libVars, aaxc_file,
                       simple_voucher_file, m4b_file>>
        /\ \E ffmpeg \in {"found", "failed"} :
            IF ffmpeg = "found" /\ simple_voucher_file[TempKey(i)]
            THEN /\ decrypt_semaphore' = SemAcquire(decrypt_semaphore, d)
                 /\ temp_m4b_file' = [temp_m4b_file EXCEPT ![TempKey(i)] = "partial"]
                 /\ Suspend(i, s1, download_semaphore, "convert")
            ELSE \* the exception leaves `async with`: the permit is given back
                 /\ UNCHANGED <<decrypt_semaphore, temp_m4b_file>>
                 /\ Raise(i, s1, download_semaphore)

\* A handler that leaves the output where it is
unlink_output_skipped(f, i) == f

\* `if m4b_file.exists(): m4b_file.unlink()` of _convert_to_m4b's handler
unlink_output(f, i) == [f EXCEPT ![TempKey(i)] = "absent"]

\* The conversion tool exits: non-zero (the output is unlinked and the
\* attempt fails) or zero.
ConvertDone(i) ==
    LET d == owner[i]
    IN  /\ alive
        /\ pc[i] = "convert"
        /\ AllStarted(owner[i])
        /\ UNCHANGED <<alive, now, paramVars, batch, results, libVars, aaxc_file,
                       simple_voucher_file, m4b_file>>
        /\ \E exit \in {"zero", "failed"} :
            IF exit = "zero"
            THEN /\ temp_m4b_file' = [temp_m4b_file EXCEPT ![TempKey(i)] =
                        IF aaxc_file[TempKey(i)] = "full" THEN "good" ELSE "from_partial"]
                 /\ UNCHANGED decrypt_semaphore
                 /\ Suspend(i, QS, download_semaphore, "embed")
            ELSE /\ temp_m4b_file' = unlink_output(temp_m4b_file, i)
                 /\ decrypt_semaphore' = SemRelease(decrypt_semaphore, d)
                 /\ Raise(i, QS, download_semaphore)

\* _add_enhanced_metadata ends (its failure is only logged); the convert
\* permit is released and the file is moved into the library.
EmbedDone(i) ==
    /\ alive
    /\ pc[i] = "embed"
    /\ AllStarted(owner[i])
    /\ decrypt_semaphore' = SemRelease(decrypt_semaphore, owner[i])
    /\ MoveAndFinish(i, QS, download_semaphore, aaxc_file, simple_voucher_file)
    /\ UNCHANGED <<alive, now, paramVars, batch, results>>

\* asyncio.sleep(5) ends: the download permit is released and the loop goes
\* to its next attempt, or ends (`return None` after the loop).
SleepDone(i) ==
    /\ alive
    /\ pc[i] = "sleep"
    /\ AllStarted(owner[i])
    /\ attempt' = [attempt EXCEPT ![i] = @ + 1]
    /\ download_semaphore' = SemRelease(download_semaphore, owner[i])
    /\ IF attempt[i] + 1 < max_retries
       THEN /\ pc' = [pc EXCEPT ![i] = "acquire"]
            /\ UNCHANGED result
       ELSE /\ pc' = [pc EXCEPT ![i] = "done"]
            /\ result' = [result EXCEPT ![i] = ReturnedNone]
    /\ UNCHANGED <<alive, now, storeVars, libVars, decrypt_semaphore, paramVars,
                   batch, results, fileVars, histVars>>

\* gather's own default
return_exceptions_default == FALSE

\* asyncio.gather(*tasks, return_exceptions=True)
return_exceptions == TRUE

ItemsOf(d) == {i \in Items : owner[i] = d}

\* the items of a call in submission order
RECURSIVE Submitted(_, _)
Submitted(d, n) ==
    IF n = 0 THEN <<>>
    ELSE IF owner[n] = d THEN Append(Submitted(d, n - 1), n)
    ELSE Submitted(d, n - 1)

\* the outcomes of the items in submission order
Outcomes(d) ==
    LET sub == Submitted(d, NumItems)
    IN  [k \in 1..Len(sub) |-> result[sub[k]]]

\* What gather has for the caller: "pending" while it waits, "returned"
\* once every task has finished (with return_exceptions a raised exception
\* is one more outcome), "raised" when a task's exception leaves gather.
gather(d) ==
    LET raised == \E i \in ItemsOf(d) : result[i] = ReturnedException
        finished == \A i \in ItemsOf(d) : pc[i] = "done"
    IN  IF raised /\ ~return_exceptions THEN "raised"
        ELSE IF finished THEN "returned"
        ELSE "pending"

\* download_books after gather: the list of outcomes is returned
GatherReturn(d) ==
    /\ alive
    /\ batch[d] = "running"
    /\ gather(d) # "pending"
    /\ batch' = [batch EXCEPT ![d] = gather(d)]
    /\ results' = [results EXCEPT ![d] =
                      IF gather(d) = "returned" THEN Outcomes(d) ELSE <<>>]
    /\ UNCHANGED <<alive, now, storeVars, libVars, download_semaphore,
                   decrypt_semaphore, paramVars, pc, attempt, result, fileVars,
                   histVars>>

(* --------------------------- specifications ---------------------------- *)
\* A fresh installation: no ledger files, no temporary files; the queue
\* manager singleton is constructed; the download_books calls are about to
\* be made with their arguments.
InitProcess ==
    /\ alive = TRUE
    /\ now = 0
    /\ queue_file = AbsentFile
    /\ queue = QueueManagerInit(AbsentFile)
    /\ library_file = AbsentFile
    /\ library_state = [d \in Downloaders |-> EmptyDict]
    /\ download_semaphore = [d \in Downloaders |-> 0]
    /\ decrypt_semaphore = [d \in Downloaders |-> 0]
    /\ batch = [d \in Downloaders |-> "idle"]
    /\ results = [d \in Downloaders |-> <<>>]
    /\ pc = [i \in Items |-> "start"]
    /\ attempt = [i \in Items |-> 0]
    /\ result = [i \in Items |-> NotReturned]
    /\ aaxc_file = [t \in Titles |-> "absent"]
    /\ simple_voucher_file = [t \in Titles |-> FALSE]
    /\ temp_m4b_file = [t \in Titles |-> "absent"]
    /\ m4b_file = [t \in Titles |-> "absent"]
    /\ nRetrying = [i \in Items |-> 0]
    /\ nError = [i \in Items |-> 0]
    /\ nFailed = [i \in Items |-> 0]
    /\ early = [i \in Items |-> "none"]

\* every item has a title of its own
DistinctTitles == book_title = [i \in Items |-> i]

\* no function is called on its own
NoFunctionCall == fn_args = <<>> /\ fn_result = <<>>

\* One download_books call (instance 1) over all the items, for every
\* max_retries and max_concurrent_downloads within the bounds.
Init ==
    /\ InitProcess
    /\ DistinctTitles
    /\ NoFunctionCall
    /\ auth = [d \in Downloaders |-> TRUE]
    /\ owner = [i \in Items |-> 1]
    /\ max_retries \in 0..MaxRetries
    /\ max_concurrent_downloads \in 1..MaxConcurrent
    /\ cleanup_aax = TRUE

ItemStep(i) ==
    \/ StartDownloadBook(i)
    \/ AcquireDownload(i)
    \/ LicenseResponse(i)
    \/ FetchChunk(i)
    \/ FetchDone(i)
    \/ AcquireDecrypt(i)
    \/ ConvertDone(i)
    \/ EmbedDone(i)
    \/ SleepDone(i)

Next ==
    \/ \E d \in Downloaders : download_books(d)
    \/ \E d \in Downloaders : GatherReturn(d)
    \/ \E i \in Items : ItemStep(i)

Spec == Init /\ [][Next]_vars

\* Two download_books calls at the same time (two request threads), the
\* items dealt to them in turn.
InitTwo ==
    /\ InitProcess
    /\ DistinctTitles
    /\ NoFunctionCall
    /\ auth = [d \in Downloaders |-> TRUE]
    /\ owner = [i \in Items |-> ((i - 1) % 2) + 1]
    /\ max_retries \in 0..MaxRetries
    /\ max_concurrent_downloads \in 1..MaxConcurrent
    /\ cleanup_aax = TRUE

SpecTwo == InitTwo /\ [][Next]_vars

\* every item has the same sanitized title: _get_file_paths gives them the
\* same temporary directory and the same flat final path
SameTitles == book_title = [i \in Items |-> 1]

\* One download_books call over items that are different books (different
\* identifiers) with one title, with one download permit: a task gets the
\* permit when another one ends or goes to its next attempt.
InitSameTitle ==
    /\ InitProcess
    /\ SameTitles
    /\ NoFunctionCall
    /\ auth = [d \in Downloaders |-> TRUE]
    /\ owner = [i \in Items |-> 1]
    /\ max_retries \in 1..MaxRetries
    /\ max_concurrent_downloads = 1
    /\ cleanup_aax \in BOOLEAN

SpecSameTitle == InitSameTitle /\ [][Next]_vars

\* The event loop runs every task that can run; every external call ends.
LiveSpec ==
    /\ Init
    /\ [][Next]_vars
    /\ \A d \in Downloaders : WF_vars(download_books(d))
    /\ \A d \in Downloaders : WF_vars(GatherReturn(d))
    /\ \A i \in Items : WF_vars(ItemStep(i))

(* ------------------------- request after request ---------------------- *)
\* The download route is called again once the earlier call has returned:
\* the same books are selected, a new AudiobookDownloader will be constructed.
NewRequest(d) ==
    /\ alive
    /\ batch[d] \in {"returned", "raised"}
    /\ batch' = [batch EXCEPT ![d] = "idle"]
    /\ results' = [results EXCEPT ![d] = <<>>]
    /\ pc' = [i \in Items |-> IF owner[i] = d THEN "start" ELSE pc[i]]
    /\ attempt' = [i \in Items |-> IF owner[i] = d THEN 0 ELSE attempt[i]]
    /\ result' = [i \in Items |-> IF owner[i] = d THEN NotReturned ELSE result[i]]
    /\ early' = [i \in Items |-> IF owner[i] = d THEN "none" ELSE early[i]]
    /\ nRetrying' = [i \in Items |-> IF owner[i] = d THEN 0 ELSE nRetrying[i]]
    /\ nError' = [i \in Items |-> IF owner[i] = d THEN 0 ELSE nError[i]]
    /\ nFailed' = [i \in Items |-> IF owner[i] = d THEN 0 ELSE nFailed[i]]
    /\ UNCHANGED <<alive, now, storeVars, libVars, download_semaphore,
                   decrypt_semaphore, argVars, fileVars>>

\* The user deletes (or moves away) an audiobook file of the library.
UserRemovesFile(t) ==
    /\ alive
    /\ Exists(m4b_file[t])
    /\ m4b_file' = [m4b_file EXCEPT ![t] = "absent"]
    /\ UNCHANGED <<alive, now, storeVars, libVars, download_semaphore,
                   decrypt_semaphore, paramVars, batch, results, pc, attempt,
                   result, aaxc_file, simple_voucher_file, temp_m4b_file,
                   histVars>>

\* the second item is another edition of the first
SimilarTitles == book_title = [i \in Items |-> IF i = 2 THEN VariantTitle ELSE i]

\* One download_books call over all the items, made again and again, of a
\* catalogue that holds two editions of one book.
InitRerun ==
    /\ InitProcess
    /\ SimilarTitles
    /\ NoFunctionCall
    /\ auth = [d \in Downloaders |-> TRUE]
    /\ owner = [i \in Items |-> 1]
    /\ max_retries = MaxRetries
    /\ max_concurrent_downloads = MaxConcurrent
    /\ cleanup_aax = TRUE

NextRerun ==
    \/ Next
    \/ \E d \in Downloaders : NewRequest(d)
    \/ \E t \in Titles : UserRemovesFile(t)

SpecRerun == InitRerun /\ [][NextRerun]_vars

(* -------------------------- crash and re-run --------------------------- *)
\* What is left of the process after a crash: nothing in memory.
MemoryLost ==
    /\ alive' = FALSE
    /\ queue' = EmptyLedger
    /\ library_state' = [d \in Downloaders |-> EmptyDict]
    /\ download_semaphore' = [d \in Downloaders |-> 0]
    /\ decrypt_semaphore' = [d \in Downloaders |-> 0]
    /\ batch' = [d \in Downloaders |-> "idle"]
    /\ results' = [d \in Downloaders |-> <<>>]
    /\ pc' = [i \in Items |-> "start"]
    /\ attempt' = [i \in Items |-> 0]
    /\ result' = [i \in Items |-> NotReturned]
    /\ nRetrying' = [i \in Items |-> 0]
    /\ nError' = [i \in Items |-> 0]
    /\ nFailed' = [i \in Items |-> 0]
    /\ early' = [i \in Items |-> "none"]
    /\ UNCHANGED <<now, argVars>>

\* The process dies between two steps; the files stay as they are (a
\* ciphertext being fetched or a conversion output being written is partial).
Crash ==
    /\ alive
    /\ MemoryLost
    /\ UNCHANGED <<queue_file, library_file, fileVars>>

\* The process dies inside _save_queue, after open(..., 'w') has truncated
\* the file: here in the save of LICENSE_GRANTED.
CrashInSaveQueue(i) ==
    /\ alive
    /\ pc[i] = "license"
    /\ MemoryLost
    /\ queue_file' = TruncatedFile
    /\ UNCHANGED <<library_file, fileVars>>

\* The process dies inside _save_library_state, after the file was truncated:
\* here in add_to_library, the converted file already moved.
CrashInSaveLibrary(i) ==
    /\ alive
    /\ pc[i] = "embed"
    /\ MemoryLost
    /\ m4b_file' = [m4b_file EXCEPT ![FinalPath(i)] = temp_m4b_file[TempKey(i)]]
    /\ temp_m4b_file' = [temp_m4b_file EXCEPT ![TempKey(i)] = "absent"]
    /\ library_file' = TruncatedFile
    /\ UNCHANGED <<queue_file, aaxc_file, simple_voucher_file>>

\* The application is started again: the queue manager loads its file.
Restart ==
    /\ ~alive
    /\ alive' = TRUE
    /\ queue' = QueueManagerInit(queue_file)
    /\ UNCHANGED <<now, queue_file, libVars, download_semaphore, decrypt_semaphore,
                   paramVars, batch, results, pc, attempt, result, fileVars,
                   histVars>>

\* One item, submitted by a download_books call, through crashes and re-runs.
CrashItem == 1

InitCrash ==
    /\ InitProcess
    /\ DistinctTitles
    /\ NoFunctionCall
    /\ auth = [d \in Downloaders |-> TRUE]
    /\ owner = [i \in Items |-> IF i = CrashItem THEN 1 ELSE 2]
    /\ max_retries \in 1..MaxRetries
    /\ max_concurrent_downloads = MaxConcurrent
    /\ cleanup_aax \in BOOLEAN

NextCrash ==
    \/ download_books(1)
    \/ GatherReturn(1)
    \/ ItemStep(CrashItem)
    \/ Crash
    \/ CrashInSaveQueue(CrashItem)
    \/ CrashInSaveLibrary(CrashItem)
    \/ Restart

SpecCrash == InitCrash /\ [][NextCrash]_vars

(* ------------------------ the queue store's API ------------------------ *)
\* The callers of the queue manager outside the pipeline (routes, importer):
\* every mutating method, called with small arguments, and the clock.
StoreUnchanged ==
    UNCHANGED <<alive, libVars, download_semaphore, decrypt_semaphore, paramVars,
                batch, results, pc, attempt, result, fileVars, histVars>>

StoreUpdates ==
    {[state |-> CONVERTED], [state |-> ERROR]}

\* _save_queue's try/except as a caller sees it: the file after the method
\* has returned, written when open() and json.dump went through and left as
\* it was when open() raised IOError (the warning is printed, nothing is
\* raised to the caller).
DiskWrite(s, disk) == IF disk = "written" THEN s.file ELSE queue_file

DiskOutcomes == {"written", "ioerror"}

CallUpdateDownload(asin, updates) ==
    \E disk \in DiskOutcomes :
        LET s1 == update_download(QS, asin, updates, now)
        IN  /\ alive
            /\ queue' = s1.mem
            /\ queue_file' = DiskWrite(s1, disk)
            /\ UNCHANGED now
            /\ StoreUnchanged

CallAddToQueue(asin) ==
    \E disk \in DiskOutcomes :
        LET s1 == add_to_queue(QS, asin, book_title[asin], EmptyDict, now)
        IN  /\ alive
            /\ queue' = s1.mem
            /\ queue_file' = DiskWrite(s1, disk)
            /\ UNCHANGED now
            /\ StoreUnchanged

CallRemoveFromQueue(asin) ==
    \E disk \in DiskOutcomes :
        LET s1 == remove_from_queue(QS, asin)
        IN  /\ alive
            /\ queue' = s1.mem
            /\ queue_file' = DiskWrite(s1, disk)
            /\ UNCHANGED now
            /\ StoreUnchanged

CallGetStatistics ==
    \E disk \in DiskOutcomes :
        LET s1 == statistics_store(QS)
        IN  /\ alive
            /\ queue' = s1.mem
            /\ queue_file' = DiskWrite(s1, disk)
            /\ UNCHANGED now
            /\ StoreUnchanged

\* time.time() moves on
Tick ==
    /\ now < MaxTime
    /\ now' = now + 1
    /\ UNCHANGED storeVars
    /\ StoreUnchanged

InitStore ==
    /\ InitProcess
    /\ DistinctTitles
    /\ NoFunctionCall
    /\ auth = [d \in Downloaders |-> TRUE]
    /\ owner = [i \in Items |-> 1]
    /\ max_retries = MaxRetries
    /\ max_concurrent_downloads = MaxConcurrent
    /\ cleanup_aax = TRUE

NextStore ==
    \/ \E asin \in Items, updates \in StoreUpdates : CallUpdateDownload(asin, updates)
    \/ \E asin \in Items : CallAddToQueue(asin)
    \/ \E asin \in Items : CallRemoveFromQueue(asin)
    \/ CallGetStatistics
    \/ Tick

SpecStore == InitStore /\ [][NextStore]_vars

(* ------------------------ successive updates ---------------------------- *)
\* The field sets update_download is called with: a state (set_download_state),
\* with the path in its metadata and the progress counter
\* (update_download_progress).
UpsertUpdates ==
    {[state |-> CONVERTED, file_path |-> 1], [downloaded_bytes |-> 1]}

NextUpsert ==
    \/ \E asin \in Items, updates \in UpsertUpdates : CallUpdateDownload(asin, updates)
    \/ \E asin \in Items : CallAddToQueue(asin)

SpecUpsert == InitStore /\ [][NextUpsert]_vars

(* ------------------------- pruning the queue ---------------------------- *)
\* clear_completed(older_than_hours) at time t: the converted entries whose
\* last update is before the cutoff are deleted, and the ledger is saved
\* when something was deleted.
clear_completed(s, older_than_hours, t) ==
    LET cutoff_time == t - (older_than_hours * 3600)
        asins_to_remove ==
            {a \in DOMAIN s.mem.entries :
                /\ DictGet(s.mem.entries[a], "state", "") = CONVERTED
                /\ DictGet(s.mem.entries[a], "last_updated", 0) < cutoff_time}
        kept == [a \in (DOMAIN s.mem.entries) \ asins_to_remove |-> s.mem.entries[a]]
    IN  IF asins_to_remove # {}
        THEN save_queue(Store([s.mem EXCEPT !.entries = kept], s.file))
        ELSE s

\* the age thresholds clear_completed is called with, in hours
PruneHours == {0, 1}

CallClearCompleted(older_than_hours) ==
    \E disk \in DiskOutcomes :
        LET s1 == clear_completed(QS, older_than_hours, now)
        IN  /\ alive
            /\ queue' = s1.mem
            /\ queue_file' = DiskWrite(s1, disk)
            /\ UNCHANGED now
            /\ StoreUnchanged

\* The queue manager's methods without remove_from_queue: entries leave the
\* ledger through clear_completed only.
NextPrune ==
    \/ \E asin \in Items, updates \in StoreUpdates : CallUpdateDownload(asin, updates)
    \/ \E asin \in Items : CallAddToQueue(asin)
    \/ CallGetStatistics
    \/ \E older_than_hours \in PruneHours : CallClearCompleted(older_than_hours)
    \/ Tick

SpecPrune == InitStore /\ [][NextPrune]_vars

(* ------------------ the pipeline polled by another thread -------------- *)
\* Before the request, an audiobook file is put at its place in the library
\* by something other than this pipeline (a restored backup, a copy, an
\* earlier installation): the ledger does not know it until sync_library or
\* a download finds it.
UserAddsFile(t) ==
    /\ alive
    /\ \A d \in Downloaders : batch[d] = "idle"
    /\ ~Exists(m4b_file[t])
    /\ m4b_file' = [m4b_file EXCEPT ![t] = "good"]
    /\ UNCHANGED <<alive, now, storeVars, libVars, download_semaphore,
                   decrypt_semaphore, paramVars, batch, results, pc, attempt,
                   result, aaxc_file, simple_voucher_file, temp_m4b_file,
                   histVars>>

\* One download_books call over all the items while another thread calls
\* get_statistics whenever it likes.
InitPoll ==
    /\ InitProcess
    /\ DistinctTitles
    /\ NoFunctionCall
    /\ auth = [d \in Downloaders |-> TRUE]
    /\ owner = [i \in Items |-> 1]
    /\ max_retries = MaxRetries
    /\ max_concurrent_downloads = MaxConcurrent
    /\ cleanup_aax = TRUE

NextPoll ==
    \/ Next
    \/ CallGetStatistics
    \/ \E i \in Items : UserAddsFile(FinalPath(i))

SpecPoll == InitPoll /\ [][NextPoll]_vars

(* ----------------- requests, polls and the clock together -------------- *)
\* One download_books call over all the items, made again and again while
\* another thread polls get_statistics and time passes.
InitBatch ==
    /\ InitProcess
    /\ DistinctTitles
    /\ NoFunctionCall
    /\ auth = [d \in Downloaders |-> TRUE]
    /\ owner = [i \in Items |-> 1]
    /\ max_retries = MaxRetries
    /\ max_concurrent_downloads = MaxConcurrent
    /\ cleanup_aax = TRUE

NextBatch ==
    \/ Next
    \/ \E d \in Downloaders : NewRequest(d)
    \/ CallGetStatistics
    \/ Tick

SpecBatch == InitBatch /\ [][NextBatch]_vars

(* ---------------- the duplicate detector, called on its own ------------ *)
\* Directory names are short strings over a two-letter alphabet; a directory
\* is the sequence of the names on its absolute, resolved path (on such a
\* path Path.resolve() changes nothing).
MaxName == 2
MaxDepth == 2
Alphabet == {"a", "b"}
DirNames == UNION {[1..n -> Alphabet] : n \in 1..MaxName}
Dirs == UNION {[1..n -> DirNames] : n \in 1..MaxDepth}

\* str(path): the characters of "/name/name..."
RECURSIVE str(_)
str(dir) ==
    IF dir = <<>> THEN <<>>
    ELSE str(SubSeq(dir, 1, Len(dir) - 1)) \o <<"/">> \o dir[Len(dir)]

\* str.startswith
startswith(text, prefix) ==
    /\ Len(prefix) <= Len(text)
    /\ SubSeq(text, 1, Len(prefix)) = prefix

\* `stored_lib.startswith(target_lib)`: the test that keeps an entry
\* as one of the target library
SameLibrary(stored_path, target_library_path) ==
    startswith(str(stored_path.parent), str(target_library_path))

None == [kind |-> "None"]

\* _check_fuzzy_duplicate(book_title, book_authors, target_library_path) on
\* the ledger library_state_: the first converted entry with an existing
\* file of the target library and a similar title, or None.  Every file of
\* the ledger exists here; the entries are gone through in the order of
\* their identifiers.
_check_fuzzy_duplicate(library_state_, book_title_, target_library_path) ==
    LET matches == {a \in DOMAIN library_state_ :
                       /\ library_state_[a].state = CONVERTED
                       /\ SameLibrary(library_state_[a].file_path,
                                      target_library_path)
                       /\ SimilarTitle(book_title_, library_state_[a].title)}
    IN  IF matches = {} THEN None
        ELSE LET a == CHOOSE a \in matches : \A b \in matches : a <= b
             IN  [kind |-> "match", asin |-> a,
                  file_path |-> library_state_[a].file_path]

\* The detector is called for a book with title 1 on a ledger of one entry.
check_fuzzy_duplicate_called ==
    /\ fn_args # <<>>
    /\ fn_result = <<>>
    /\ fn_result' = <<_check_fuzzy_duplicate(fn_args.library_state,
                                             fn_args.book_title,
                                             fn_args.target_library_path)>>
    /\ UNCHANGED <<alive, now, storeVars, libVars, download_semaphore,
                   decrypt_semaphore, auth, owner, max_retries,
                   max_concurrent_downloads, cleanup_aax, book_title, fn_args,
                   early, batch, results, pc, attempt, result, fileVars,
                   histVars>>

\* Every target library root, and every ledger of one converted entry: its
\* file in any directory, its title the book's, another edition's or
\* another book's.
InitRoot ==
    /\ InitProcess
    /\ DistinctTitles
    /\ auth = [d \in Downloaders |-> TRUE]
    /\ owner = [i \in Items |-> 1]
    /\ max_retries = MaxRetries
    /\ max_concurrent_downloads = MaxConcurrent
    /\ cleanup_aax = TRUE
    /\ fn_result = <<>>
    /\ \E root \in Dirs, parent \in Dirs, title \in {1, 2, VariantTitle} :
        fn_args = [book_title |-> 1,
                   target_library_path |-> root,
                   library_state |->
                       (2 :> [asin |-> 2, title |-> title, state |-> CONVERTED,
                              file_path |-> [parent |-> parent, name |-> title]])]

NextRoot == check_fuzzy_duplicate_called

SpecRoot == InitRoot /\ [][NextRoot]_vars

(* ------------- download_book up to its return, called on its own -------- *)
\* the flat final path of _get_file_paths:
\* self.library_path / safe_title / f"{safe_title}.m4b"
flat_m4b_file(library_path, book_title_) ==
    [parent |-> Append(library_path, book_title_), name |-> book_title_]

\* the entries of the ledger whose stored file exists
WithExistingFile(library_state_, existing) ==
    [a \in {a \in DOMAIN library_state_ :
                library_state_[a].file_path \in existing} |-> library_state_[a]]

\* The path download_book returns when it returns one, for an instance with
\* library root library_path, the ledger library_state_ and the audiobook
\* files `existing` on disk: the ledger short-circuit, the final file at the
\* expected place, the duplicate skip, or the final path of the pipeline
\* (existing final file or completed conversion).
download_book_path(library_path, library_state_, book_asin, book_title_, existing) ==
    LET m4b_file_ == flat_m4b_file(library_path, book_title_)
        existing_entry == DictGet(library_state_, book_asin, EmptyDict)
        converted == DictGet(existing_entry, "state", "") = CONVERTED
        \* `self.library_state.pop(book_asin, None)` of the stale branch
        ledger == IF converted THEN DictDel(library_state_, book_asin)
                  ELSE library_state_
        fuzzy_match == _check_fuzzy_duplicate(WithExistingFile(ledger, existing),
                                              book_title_, library_path)
    IN  IF converted /\ existing_entry.file_path \in existing
        THEN existing_entry.file_path
        ELSE IF converted /\ m4b_file_ \in existing
        THEN m4b_file_
        ELSE IF fuzzy_match # None
        THEN fuzzy_match.file_path
        ELSE m4b_file_

download_book_called ==
    /\ fn_args # <<>>
    /\ fn_result = <<>>
    /\ fn_result' = <<download_book_path(fn_args.library_path,
                                         fn_args.library_state,
                                         fn_args.book_asin,
                                         fn_args.book_title,
                                         fn_args.existing)>>
    /\ UNCHANGED <<alive, now, storeVars, libVars, download_semaphore,
                   decrypt_semaphore, auth, owner, max_retries,
                   max_concurrent_downloads, cleanup_aax, book_title, fn_args,
                   early, batch, results, pc, attempt, result, fileVars,
                   histVars>>

\* download_book for book 1 with title 1, for every library root; the shared
\* ledger config/library.json holds one converted entry, of this book or of
\* book 2, with any title, its file in any directory, on disk or deleted.
InitReturn ==
    /\ InitProcess
    /\ DistinctTitles
    /\ auth = [d \in Downloaders |-> TRUE]
    /\ owner = [i \in Items |-> 1]
    /\ max_retries = MaxRetries
    /\ max_concurrent_downloads = MaxConcurrent
    /\ cleanup_aax = TRUE
    /\ fn_result = <<>>
    /\ \E root \in Dirs, parent \in Dirs, asin \in {1, 2},
          title \in {1, 2, VariantTitle}, on_disk \in BOOLEAN :
        LET file_path == [parent |-> parent, name |-> title]
        IN  fn_args = [library_path |-> root,
                       book_asin |-> 1,
                       book_title |-> 1,
                       existing |-> IF on_disk THEN {file_path} ELSE {},
                       library_state |->
                           (asin :> [asin |-> asin, title |-> title,
                                     state |-> CONVERTED,
                                     file_path |-> file_path])]

NextReturn == download_book_called

SpecReturn == InitReturn /\ [][NextReturn]_vars

(* ----------------------------- path compiler --------------------------- *)
\* Texts are sequences of characters; a placeholder such as {Series} is one
\* element of a pattern.
max_iterations == 10
\* [:200]
MaxFilename == 200

\* the keys of `replacements`, in the order of the dict
PlaceholderOrder ==
    <<"{Author}", "{Series}", "{Title}", "{Year}", "{Narrator}", "{Publisher}",
      "{Language}", "{ASIN}", "{Volume}">>
Placeholders == {PlaceholderOrder[k] : k \in DOMAIN PlaceholderOrder}

\* the least index of a set of indices, 0 for the empty set
First(hits) == IF hits = {} THEN 0 ELSE CHOOSE k \in hits : \A h \in hits : k <= h

\* text[first:]
From(text, first) == SubSeq(text, first, Len(text))

\* str.find: the first index at which sub occurs in text, 0 when it does not
find(text, sub) ==
    First({k \in 1..(Len(text) - Len(sub) + 1) :
              \A h \in DOMAIN sub : text[k + h - 1] = sub[h]})

\* text.replace(old, new, 1)
replace_first(text, old, new) ==
    LET k == find(text, old)
    IN  IF k = 0 THEN text
        ELSE SubSeq(text, 1, k - 1) \o new \o From(text, k + Len(old))

\* text.replace(placeholder, value), the placeholder being one element
RECURSIVE replace(_, _, _)
replace(text, placeholder, value) ==
    LET k == find(text, <<placeholder>>)
    IN  IF k = 0 THEN text
        ELSE SubSeq(text, 1, k - 1) \o value
                \o replace(From(text, k + 1), placeholder, value)

\* re.search(r'\[([^\[\]]*)\]', pattern): the leftmost [ whose next bracket is
\* a ], as [start, end], or None
search_innermost(pattern) ==
    LET closes(p) == {q \in (p + 1)..Len(pattern) :
                        /\ pattern[q] = "]"
                        /\ \A k \in (p + 1)..(q - 1) : pattern[k] \notin {"[", "]"}}
        starts == {p \in 1..Len(pattern) : pattern[p] = "[" /\ closes(p) # {}}
    IN  IF starts = {} THEN None
        ELSE [kind |-> "match", start |-> First(starts),
              end |-> First(closes(First(starts)))]

\* A group is kept whatever its placeholders resolve to
should_include_always(bracketed_content, replacements) == TRUE

\* lines 726-732: no placeholder that occurs in the bracketed content has an
\* empty value
should_include(bracketed_content, replacements) ==
    \A placeholder \in DOMAIN replacements :
        (\E k \in DOMAIN bracketed_content : bracketed_content[k] = placeholder)
            => replacements[placeholder] # <<>>

\* one iteration of the while loop of _process_conditional_brackets on a
\* pattern in which re.search finds a group
bracket_iteration(pattern, replacements) ==
    LET match == search_innermost(pattern)
        bracketed_content == SubSeq(pattern, match.start + 1, match.end - 1)
        full_match == SubSeq(pattern, match.start, match.end)
    IN  IF should_include(bracketed_content, replacements)
        THEN replace_first(pattern, full_match, bracketed_content)
        ELSE replace_first(pattern, full_match, <<>>)

\* the loop goes on: `'[' in pattern and iteration < max_iterations`, and
\* re.search has a match
LoopContinues(pattern, iteration) ==
    /\ \E k \in DOMAIN pattern : pattern[k] = "["
    /\ iteration < max_iterations
    /\ search_innermost(pattern) # None

RECURSIVE process_brackets_from(_, _, _)
process_brackets_from(pattern, replacements, iteration) ==
    IF LoopContinues(pattern, iteration)
    THEN process_brackets_from(bracket_iteration(pattern, replacements),
                               replacements, iteration + 1)
    ELSE pattern

_process_conditional_brackets(pattern, replacements) ==
    process_brackets_from(pattern, replacements, 0)

\* \s and the characters str.strip() removes: the space and, of the control
\* characters, \t \n \v \f \r \x1c-\x1f \x85 (here \x1f)
IsSpace(c) == c \in {" ", "\\x1f"}

\* the number of whitespace characters text begins with
LeadingSpaces(text) ==
    IF text = <<>> \/ ~IsSpace(text[1]) THEN 0
    ELSE LET k == First({k \in DOMAIN text : ~IsSpace(text[k])})
         IN  IF k = 0 THEN Len(text) ELSE k - 1

\* str.strip()
rstrip(text) ==
    IF text = <<>> \/ ~IsSpace(text[Len(text)]) THEN text
    ELSE SubSeq(text, 1, Len(text) - Cardinality({k \in DOMAIN text :
                            \A h \in k..Len(text) : IsSpace(text[h])}))
strip(text) == rstrip(From(text, LeadingSpaces(text) + 1))

\* re.sub(open \s* close, '', text)
RECURSIVE sub_empty_pair(_, _, _)
sub_empty_pair(text, open, close) ==
    LET k == First({k \in DOMAIN text :
                      /\ text[k] = open
                      /\ LET rest == From(text, k + 1 + LeadingSpaces(From(text, k + 1)))
                         IN  rest # <<>> /\ Head(rest) = close})
        end == k + 1 + LeadingSpaces(From(text, k + 1))
    IN  IF k = 0 THEN text
        ELSE SubSeq(text, 1, k - 1) \o sub_empty_pair(From(text, end + 1), open, close)

\* re.sub(r'\s+', ' ', text)
RECURSIVE sub_spaces(_)
sub_spaces(text) ==
    LET k == First({k \in DOMAIN text : IsSpace(text[k])})
    IN  IF k = 0 THEN text
        ELSE SubSeq(text, 1, k - 1) \o <<" ">>
                \o sub_spaces(From(text, k + LeadingSpaces(From(text, k))))

\* the length of the match of \s*-\s* at the start of text, 0 when there is none
DashMatch(text) ==
    LET n == LeadingSpaces(text)
    IN  IF n < Len(text) /\ text[n + 1] = "-"
        THEN n + 1 + LeadingSpaces(From(text, n + 2)) ELSE 0

\* \s*-\s* matches at index k of text
StartsDash(text, k) ==
    /\ IsSpace(text[k]) \/ text[k] = "-"
    /\ DashMatch(From(text, k)) > 0

\* the length of the match of (\s*-\s*)+ at the start of text
RECURSIVE DashRunMatch(_)
DashRunMatch(text) ==
    LET n == DashMatch(text)
    IN  IF n = 0 THEN 0 ELSE n + DashRunMatch(From(text, n + 1))

\* re.sub(r'\s*-\s*', ' - ', text)
RECURSIVE sub_dash(_)
sub_dash(text) ==
    LET k == First({k \in DOMAIN text : StartsDash(text, k)})
    IN  IF k = 0 THEN text
        ELSE SubSeq(text, 1, k - 1) \o <<" ", "-", " ">>
                \o sub_dash(From(text, k + DashMatch(From(text, k))))

\* re.sub(r'^\s*-\s*', '', text)
sub_leading_dash(text) == From(text, DashMatch(text) + 1)

\* re.sub(r'\s*-\s*$', '', text): the leftmost match that reaches the end
sub_trailing_dash(text) ==
    LET k == First({k \in DOMAIN text :
                      /\ StartsDash(text, k)
                      /\ DashMatch(From(text, k)) = Len(text) - k + 1})
    IN  IF k = 0 THEN text ELSE SubSeq(text, 1, k - 1)

\* re.sub(r'(\s*-\s*)+', ' - ', text)
RECURSIVE sub_dash_runs(_)
sub_dash_runs(text) ==
    LET k == First({k \in DOMAIN text : StartsDash(text, k)})
    IN  IF k = 0 THEN text
        ELSE SubSeq(text, 1, k - 1) \o <<" ", "-", " ">>
                \o sub_dash_runs(From(text, k + DashRunMatch(From(text, k))))

_cleanup_pattern(text) ==
    LET t1 == sub_empty_pair(text, "(", ")")
        t2 == sub_empty_pair(t1, "[", "]")
        t3 == sub_empty_pair(t2, "{", "}")
        t4 == sub_spaces(t3)
        t5 == sub_dash(t4)
        t6 == sub_leading_dash(t5)
        t7 == sub_trailing_dash(t6)
        t8 == sub_dash_runs(t7)
    IN  strip(t8)

\* \x00-\x1f and \x7f-\x9f, by their ends
ControlCharacters == {"\\x00", "\\x1f", "\\x7f", "\\x9f"}
\* the class [<>:"/\\|?*\x00-\x1f\x7f-\x9f]
IllegalCharacters == {"<", ">", ":", "\"", "/", "\\", "|", "?", "*"} \cup ControlCharacters

_sanitize_filename(filename) ==
    LET replaced == [k \in DOMAIN filename |->
                        IF filename[k] \in IllegalCharacters THEN "_" ELSE filename[k]]
    IN  SubSeq(replaced, 1, IF Len(replaced) < MaxFilename THEN Len(replaced) ELSE MaxFilename)

\* text.split('/')
RECURSIVE split(_)
split(text) ==
    LET k == find(text, <<"/">>)
    IN  IF k = 0 THEN <<text>>
        ELSE <<SubSeq(text, 1, k - 1)>> \o split(From(text, k + 1))

\* lines 838-839: the placeholders replaced one after the other
RECURSIVE replace_placeholders(_, _, _)
replace_placeholders(text, replacements, k) ==
    IF k > Len(PlaceholderOrder) THEN text
    ELSE replace_placeholders(
            replace(text, PlaceholderOrder[k], replacements[PlaceholderOrder[k]]),
            replacements, k + 1)

m4b == <<".", "m", "4", "b">>

\* lines 842-852: the segments kept of the split pattern
RECURSIVE clean_parts(_)
clean_parts(parts) ==
    IF parts = <<>> THEN <<>>
    ELSE LET part == strip(Head(parts))
             cleaned == _cleanup_pattern(part)
             sanitized == _sanitize_filename(cleaned)
         IN  (IF part # <<>> /\ cleaned # <<>> /\ sanitized # <<>> /\ sanitized # m4b
              THEN <<sanitized>> ELSE <<>>)
                \o clean_parts(Tail(parts))

\* Path(base_path).joinpath(*parts), as the segments below base_path: pathlib
\* drops the empty and the "." segments
joinpath(parts) == SelectSeq(parts, LAMBDA part : part # <<>> /\ part # <<".">>)

\* build_path_from_pattern from line 837 on, path_str being the pattern
\* after the conditional brackets
path_from(path_str, replacements) ==
    LET path_parts == clean_parts(split(replace_placeholders(path_str, replacements, 1)))
        safe_title == _sanitize_filename(replacements["{Title}"])
    IN  IF path_parts = <<>>
        THEN joinpath(<<safe_title, safe_title \o m4b>>)
        ELSE joinpath(path_parts)

build_path_from_pattern(pattern, replacements) ==
    path_from(_process_conditional_brackets(pattern, replacements), replacements)

\* invalid_chars of validate_pattern
invalid_chars == {"<", ">", ":", "\"", "|", "?", "*"}

\* str.endswith
endswith(text, suffix) ==
    /\ Len(suffix) <= Len(text)
    /\ SubSeq(text, Len(text) - Len(suffix) + 1, Len(text)) = suffix

\* SettingsManager.validate_pattern: the pattern is accepted
validate_pattern(pattern) ==
    /\ strip(pattern) # <<>>
    /\ \A k \in DOMAIN pattern : pattern[k] \notin invalid_chars
    /\ \E k \in DOMAIN pattern : pattern[k] = "{Title}"
    /\ endswith(strip(pattern), m4b)

(* ---------------- the path compiler called on a pattern ---------------- *)
\* Patterns are every text of up to MaxPattern elements over brackets, the
\* separator, a letter and two placeholders, and a few longer ones: the
\* default pattern of settings.py, a directory level in a group, and ten and
\* eleven groups in a row.
MaxPattern == 4
PatternElements == {"[", "]", "/", "a", "{Series}", "{Title}"}
ShortPatterns == UNION {[1..n -> PatternElements] : n \in 0..MaxPattern}

DEFAULT_NAMING_PATTERN ==
    <<"{Author}", "/", "[", "{Series}", "/", "]",
      "[", "V", "o", "l", ".", " ", "{Volume}", " ", "-", " ", "]",
      "{Year}", " ", "-", " ", "{Title}", "[", " ", "{", "{Narrator}", "}", "]",
      "/", "{Title}">> \o m4b

RECURSIVE Repeat(_, _)
Repeat(text, n) == IF n = 0 THEN <<>> ELSE text \o Repeat(text, n - 1)

LongPatterns ==
    {DEFAULT_NAMING_PATTERN,
     <<"{Author}", "/", "[", "{Series}", "]", "/", "{Title}">> \o m4b,
     Repeat(<<"[", "a", "]">>, max_iterations),
     Repeat(<<"[", "a", "]">>, max_iterations + 1)}

Patterns == ShortPatterns \cup LongPatterns

\* a title longer than a file name may be
LongTitle == [k \in 1..(MaxFilename + 1) |-> "t"]

Titles_ ==
    {<<"t">>,
     <<"t", ":", " ", "-", "t">>,
     <<"<", ">", ":", "\"", "/", "\\", "|", "?", "*",
       "\\x00", "\\x1f", "\\x7f", "\\x9f">>,
     LongTitle}

\* the dict `replacements` of build_path_from_pattern: the author is never
\* empty, a volume comes with a series only
Replacements ==
    {("{Author}" :> <<"A">>) @@ ("{Series}" :> series) @@ ("{Title}" :> title)
        @@ ("{Year}" :> <<"1", "9">>) @@ ("{Narrator}" :> narrator)
        @@ ("{Publisher}" :> <<>>) @@ ("{Language}" :> <<>>) @@ ("{ASIN}" :> <<>>)
        @@ ("{Volume}" :> volume) :
        series \in {<<>>, <<"s">>}, volume \in {<<>>, <<"1">>},
        narrator \in {<<>>, <<"N">>}, title \in Titles_}

FunctionUnchanged ==
    UNCHANGED <<alive, now, storeVars, libVars, download_semaphore,
                decrypt_semaphore, auth, owner, max_retries,
                max_concurrent_downloads, cleanup_aax, book_title, fn_args,
                early, batch, results, pc, attempt, result, fileVars,
                histVars>>

\* one iteration of the while loop at lines 712-740
BracketIteration ==
    /\ fn_result.stage = "brackets"
    /\ LoopContinues(fn_result.pattern, fn_result.iteration)
    /\ fn_result' = [fn_result EXCEPT
            !.pattern = bracket_iteration(fn_result.pattern, fn_args.replacements),
            !.iteration = fn_result.iteration + 1]
    /\ FunctionUnchanged

\* the loop is left and build_path_from_pattern returns the path
BuildPathReturn ==
    /\ fn_result.stage = "brackets"
    /\ ~LoopContinues(fn_result.pattern, fn_result.iteration)
    /\ fn_result' = [stage |-> "returned",
                     pattern |-> fn_result.pattern,
                     iteration |-> fn_result.iteration,
                     path |-> path_from(fn_result.pattern, fn_args.replacements)]
    /\ FunctionUnchanged

InitPath ==
    /\ InitProcess
    /\ DistinctTitles
    /\ auth = [d \in Downloaders |-> TRUE]
    /\ owner = [i \in Items |-> 1]
    /\ max_retries = MaxRetries
    /\ max_concurrent_downloads = MaxConcurrent
    /\ cleanup_aax = TRUE
    /\ \E pattern \in Patterns, replacements \in Replacements :
        /\ \/ replacements["{Series}"] # <<>>
           \/ replacements["{Volume}"] = <<>>
        /\ fn_args = [pattern |-> pattern, replacements |-> replacements]
        /\ fn_result = [stage |-> "brackets", pattern |-> pattern, iteration |-> 0]

NextPath == BracketIteration \/ BuildPathReturn

SpecPath == InitPath /\ [][NextPath]_vars

(* ------------------ fuzzy matching on texts of characters --------------- *)
\* Texts of up to MaxText characters.
MaxText == 4

\* str.lower() of a character
lower(c) ==
    IF c = "T" THEN "t" ELSE IF c = "P" THEN "p" ELSE IF c = "E" THEN "e"
    ELSE IF c = "V" THEN "v" ELSE IF c = "B" THEN "b" ELSE IF c = "A" THEN "a"
    ELSE c

\* unicodedata.normalize('NFD', c): a letter with a diacritic is the letter
\* followed by a combining mark
CombiningMark == "\\u0301"
NFD(c) == IF c = "\\u00e9" THEN <<"e", CombiningMark>> ELSE <<c>>

\* unicodedata.category(c) == 'Mn'
IsMn(c) == c = CombiningMark

\* the class [:\-_,.;!?()[\]{}"\']
Separators ==
    {":", "-", "_", ",", ".", ";", "!", "?", "(", ")", "[", "]", "{", "}", "\"", "'"}

\* \w
IsWordCharacter(c) ==
    c \in {"a", "b", "c", "d", "e", "h", "i", "l", "m", "n", "o", "p", "r", "t",
           "u", "v", "x", "A", "B", "E", "P", "T", "V", "\\u00e9",
           "0", "1", "2", "3", "_"}

\* every text position counts as a word boundary
word_boundary_anywhere(text, first, last) == TRUE

\* \b before index first and after index last of text
word_boundary(text, first, last) ==
    /\ first = 1 \/ ~IsWordCharacter(text[first - 1])
    /\ last = Len(text) \/ ~IsWordCharacter(text[last + 1])

\* re.sub(r'\b' + word + r'\b', '', text)
RECURSIVE sub_word(_, _)
sub_word(text, word) ==
    LET k == First({k \in 1..(Len(text) - Len(word) + 1) :
                      /\ SubSeq(text, k, k + Len(word) - 1) = word
                      /\ word_boundary(text, k, k + Len(word) - 1)})
    IN  IF k = 0 THEN text
        ELSE SubSeq(text, 1, k - 1) \o sub_word(From(text, k + Len(word)), word)

\* replacements = ['band', 'teil', 'buch', 'volume', 'vol', 'part', 'pt']
VolumeWords ==
    <<<<"b", "a", "n", "d">>, <<"t", "e", "i", "l">>, <<"b", "u", "c", "h">>,
      <<"v", "o", "l", "u", "m", "e">>, <<"v", "o", "l">>,
      <<"p", "a", "r", "t">>, <<"p", "t">>>>

RECURSIVE remove_words(_, _)
remove_words(text, k) ==
    IF k > Len(VolumeWords) THEN text
    ELSE remove_words(sub_word(text, VolumeWords[k]), k + 1)

RECURSIVE Flatten(_)
Flatten(texts) ==
    IF texts = <<>> THEN <<>> ELSE Head(texts) \o Flatten(Tail(texts))

normalize_for_matching(text) ==
    LET lowered == [k \in DOMAIN text |-> lower(text[k])]
        decomposed == Flatten([k \in DOMAIN lowered |-> NFD(lowered[k])])
        unmarked == SelectSeq(decomposed, LAMBDA c : ~IsMn(c))
        separated == [k \in DOMAIN unmarked |->
                        IF unmarked[k] \in Separators THEN " " ELSE unmarked[k]]
    IN  IF text = <<>> THEN <<>>
        ELSE strip(sub_spaces(remove_words(separated, 1)))

\* text.split(): the words between runs of whitespace
RECURSIVE words_of(_)
words_of(text) ==
    LET t == From(text, LeadingSpaces(text) + 1)
        k == First({k \in DOMAIN t : IsSpace(t[k])})
    IN  IF t = <<>> THEN {}
        ELSE IF k = 0 THEN {t}
        ELSE {SubSeq(t, 1, k - 1)} \cup words_of(From(t, k + 1))

\* \d
IsDigit(c) == c \in {"0", "1", "2", "3"}

\* set(re.findall(r'\d+', text)): the maximal runs of digits
numbers_of(text) ==
    {SubSeq(text, a, b) : a \in DOMAIN text, b \in DOMAIN text} \cap
    {SubSeq(text, ab[1], ab[2]) :
        ab \in {ab \in (DOMAIN text) \X (DOMAIN text) :
                  /\ ab[1] <= ab[2]
                  /\ \A k \in ab[1]..ab[2] : IsDigit(text[k])
                  /\ ab[1] = 1 \/ ~IsDigit(text[ab[1] - 1])
                  /\ ab[2] = Len(text) \/ ~IsDigit(text[ab[2] + 1])}}

\* `text1 in text2`
in(text1, text2) == text1 = <<>> \/ find(text2, text1) # 0

\* the containment test looks in one direction only
substring_containment_oneway(text1, text2) == in(text1, text2)

\* `text1 in text2 or text2 in text1`
substring_containment(text1, text2) == in(text1, text2) \/ in(text2, text1)

\* calculate_similarity: the score as the fraction num / den
calculate_similarity(text1, text2) ==
    LET words1 == words_of(text1)
        words2 == words_of(text2)
        intersection == Cardinality(words1 \cap words2)
        union == Cardinality(words1 \cup words2)
        substring_bonus == IF substring_containment(text1, text2) THEN 2 ELSE 0
        numbers1 == numbers_of(text1)
        numbers2 == numbers_of(text2)
        most == IF Cardinality(numbers1) >= Cardinality(numbers2)
                THEN Cardinality(numbers1) ELSE Cardinality(numbers2)
        matching == Cardinality(numbers1 \cap numbers2)
        score == IF numbers1 # {} /\ numbers2 # {}
                 THEN [num |-> 10 * intersection * most + substring_bonus * union * most
                                + 3 * matching * union,
                       den |-> 10 * union * most]
                 ELSE [num |-> 10 * intersection + substring_bonus * union,
                       den |-> 10 * union]
    IN  IF text1 = <<>> \/ text2 = <<>> THEN [num |-> 0, den |-> 1]
        ELSE IF text1 = text2 THEN [num |-> 1, den |-> 1]
        ELSE IF words1 = {} \/ words2 = {} THEN [num |-> 0, den |-> 1]
        ELSE IF score.num > score.den THEN [num |-> 1, den |-> 1]
        ELSE score

\* The texts the normaliser is called on: letters of the word 'pt', in both
\* cases and with a diacritic, a separator, a space, a digit and a slash.
NormalizeCharacters == {"p", "t", "T", "\\u00e9", "-", " ", "1", "/"}
NormalizeTexts == UNION {[1..n -> NormalizeCharacters] : n \in 0..MaxText}

InitFunction ==
    /\ InitProcess
    /\ DistinctTitles
    /\ auth = [d \in Downloaders |-> TRUE]
    /\ owner = [i \in Items |-> 1]
    /\ max_retries = MaxRetries
    /\ max_concurrent_downloads = MaxConcurrent
    /\ cleanup_aax = TRUE
    /\ fn_result = <<>>

\* normalize_for_matching is called on the text, then on its own result
normalize_called ==
    /\ Len(fn_result) < 2
    /\ fn_result' = Append(fn_result,
            normalize_for_matching(IF fn_result = <<>> THEN fn_args.text
                                   ELSE fn_result[1]))
    /\ FunctionUnchanged

InitNormalize == InitFunction /\ \E text \in NormalizeTexts : fn_args = [text |-> text]

NextNormalize == normalize_called

SpecNormalize == InitNormalize /\ [][NextNormalize]_vars

\* The texts compared: a letter, a digit and a space.
SimilarityCharacters == {"a", "1", " "}
SimilarityTexts == UNION {[1..n -> SimilarityCharacters] : n \in 0..MaxText}

\* calculate_similarity is called on the two texts, then on the two swapped
similarity_called ==
    /\ Len(fn_result) < 2
    /\ fn_result' = Append(fn_result,
            IF fn_result = <<>>
            THEN calculate_similarity(fn_args.text1, fn_args.text2)
            ELSE calculate_similarity(fn_args.text2, fn_args.text1))
    /\ FunctionUnchanged

InitSimilarity ==
    /\ InitFunction
    /\ \E text1 \in SimilarityTexts, text2 \in SimilarityTexts :
            fn_args = [text1 |-> text1, text2 |-> text2]

NextSimilarity == similarity_called

SpecSimilarity == InitSimilarity /\ [][NextSimilarity]_vars

(* ------------- the score of two texts, normalised by the caller --------- *)
\* Texts of up to MaxText characters over an upper-case letter, a separator
\* and a digit.
ScoreCharacters == {"T", "-", "1"}
ScoreTexts == UNION {[1..n -> ScoreCharacters] : n \in 0..MaxText}

\* similarity(normalized(a), normalized(b)), as the duplicate detector and
\* the comparator call it
score_called ==
    /\ fn_result = <<>>
    /\ fn_result' = <<calculate_similarity(normalize_for_matching(fn_args.text1),
                                           normalize_for_matching(fn_args.text2))>>
    /\ FunctionUnchanged

InitScore ==
    /\ InitFunction
    /\ \E text1 \in ScoreTexts, text2 \in ScoreTexts :
            fn_args = [text1 |-> text1, text2 |-> text2]

NextScore == score_called

SpecScore == InitScore /\ [][NextScore]_vars

(* ----------------------- the library comparator ------------------------ *)
\* LibraryComparator._normalize_for_matching and _calculate_advanced_similarity
\* are the code of normalize_for_matching and calculate_similarity.
_calculate_advanced_similarity(text1, text2) == calculate_similarity(text1, text2)

\* _calculate_word_similarity: the Jaccard similarity of the word sets
_calculate_word_similarity(text1, text2) ==
    LET words1 == words_of(text1)
        words2 == words_of(text2)
    IN  IF text1 = <<>> \/ text2 = <<>> THEN [num |-> 0, den |-> 1]
        ELSE IF words1 = {} \/ words2 = {} THEN [num |-> 0, den |-> 1]
        ELSE [num |-> Cardinality(words1 \cap words2),
              den |-> Cardinality(words1 \cup words2)]

\* self.match_threshold = 0.6, in tenths
match_threshold == 6

\* a comparator that does not look at the authors
authors_match_always(author_similarity) == TRUE

\* `if author_similarity >= 0.7`
authors_match(author_similarity) ==
    10 * author_similarity.num >= 7 * author_similarity.den

\* `if title_similarity >= self.match_threshold`
titles_match(title_similarity) ==
    10 * title_similarity.num >= match_threshold * title_similarity.den

\* the loop of _fuzzy_match_book from local book k on
RECURSIVE fuzzy_match_from(_, _, _, _)
fuzzy_match_from(audible_title, audible_author, local_books, k) ==
    IF k > Len(local_books) THEN FALSE
    ELSE LET local_title == normalize_for_matching(local_books[k].title)
             local_author == normalize_for_matching(local_books[k].authors)
             author_similarity == _calculate_word_similarity(audible_author, local_author)
         IN  IF /\ authors_match(author_similarity)
                /\ titles_match(_calculate_advanced_similarity(audible_title, local_title))
             THEN TRUE
             ELSE fuzzy_match_from(audible_title, audible_author, local_books, k + 1)

_fuzzy_match_book(audible_book, local_books) ==
    fuzzy_match_from(normalize_for_matching(audible_book.title),
                     normalize_for_matching(audible_book.authors), local_books, 1)

\* The titles of test_matching.py, a title and another volume of it; authors
\* named with two, three and four words, and a book without author.
MaxBooks == 2
AudibleExample ==
    <<"e", "x", " ", "v", "i", "t", "r", "o", " ", "-", " ", "c", "2", "3",
      " ", "-", " ", "B", "a", "n", "d", " ", "1">>
LocalExample ==
    <<"E", "x", " ", "V", "i", "t", "r", "o", ":", " ", "c", "2", "3", ",",
      " ", "1">>
BookTitles == {AudibleExample, LocalExample, <<"t", " ", "1">>, <<"T", "-", "2">>, <<>>}
BookAuthors ==
    {<<"a", " ", "b">>, <<"A", " ", "b", " ", "c">>,
     <<"a", " ", "b", " ", "c", " ", "d">>, <<>>}
Books == [title : BookTitles, authors : BookAuthors]
BookLists == UNION {[1..n -> Books] : n \in 0..MaxBooks}

fuzzy_match_called ==
    /\ fn_result = <<>>
    /\ fn_result' = <<_fuzzy_match_book(fn_args.audible_book, fn_args.local_books)>>
    /\ FunctionUnchanged

InitMatch ==
    /\ InitFunction
    /\ \E audible_book \in Books, local_books \in BookLists :
            fn_args = [audible_book |-> audible_book, local_books |-> local_books]

NextMatch == fuzzy_match_called

SpecMatch == InitMatch /\ [][NextMatch]_vars

(* ------------------------- the library re-sync ------------------------- *)
\* The *.m4b files rglob finds below the library root, in scan order; the
\* path of a file is its place in the scan.  A file has the identifier in
\* its comment tag ("tagged"), has no such tag ("untagged"), cannot be
\* opened ("unreadable"), or has the identifier but raises when its title
\* is read ("title_error").
MaxFiles == 3
\* extract_asin_from_m4b returns None
NoAsin == 0
FileKinds ==
    {[kind |-> "tagged", asin |-> 1], [kind |-> "tagged", asin |-> 2],
     [kind |-> "untagged", asin |-> NoAsin],
     [kind |-> "unreadable", asin |-> NoAsin],
     [kind |-> "title_error", asin |-> 1]}
FileLists == UNION {[1..n -> FileKinds] : n \in 0..MaxFiles}

\* extract_asin_from_m4b: every exception is swallowed
extract_asin_from_m4b(file) ==
    IF file.kind \in {"tagged", "title_error"} THEN file.asin ELSE NoAsin

\* the counters of sync_library before the scan
FreshStats ==
    [files_scanned |-> 0, asins_found |-> 0, entries_added |-> 0,
     entries_updated |-> 0, errors |-> 0]

\* one iteration of the loop of sync_library on the file at `path`: the
\* counters and the ledger after it
sync_file(stats, ledger, file, path, t) ==
    LET asin == extract_asin_from_m4b(file)
        scanned == [stats EXCEPT !.files_scanned = @ + 1]
        found == [scanned EXCEPT !.asins_found = @ + 1]
    IN  IF asin = NoAsin
        THEN [stats |-> scanned, ledger |-> ledger]
        ELSE IF file.kind = "title_error"
        THEN \* the except branch
             [stats |-> [found EXCEPT !.errors = @ + 1], ledger |-> ledger]
        ELSE IF asin \in DOMAIN ledger
        THEN [stats |-> [found EXCEPT !.entries_updated = @ + 1],
              ledger |-> DictSet(ledger, asin,
                            DictUpdate(ledger[asin],
                                [file_path |-> path, title |-> asin,
                                 timestamp |-> t]))]
        ELSE [stats |-> [found EXCEPT !.entries_added = @ + 1],
              ledger |-> DictSet(ledger, asin,
                            [state |-> CONVERTED, asin |-> asin, title |-> asin,
                             file_path |-> path, timestamp |-> t,
                             downloaded_by_account |-> "synced_from_library"])]

SyncUnchanged ==
    UNCHANGED <<alive, now, storeVars, download_semaphore, decrypt_semaphore,
                auth, owner, max_retries, max_concurrent_downloads, cleanup_aax,
                book_title, fn_args, early, batch, results, pc, attempt, result,
                fileVars, histVars>>

\* sync_library of instance 1 scans its next file
SyncScanFile ==
    /\ fn_result.stage = "scanning"
    /\ fn_result.next <= Len(fn_args.files)
    /\ LET step == sync_file(fn_result.stats, library_state[1],
                             fn_args.files[fn_result.next], fn_result.next, now)
       IN  /\ fn_result' = [fn_result EXCEPT !.next = @ + 1, !.stats = step.stats]
           /\ library_state' = [library_state EXCEPT ![1] = step.ledger]
    /\ UNCHANGED library_file
    /\ SyncUnchanged

\* the scan is over: _save_library_state, and sync_library returns the
\* counters
SyncReturn ==
    /\ fn_result.stage = "scanning"
    /\ fn_result.next > Len(fn_args.files)
    /\ fn_result' = [fn_result EXCEPT !.stage = "returned"]
    /\ library_file' = save_library_state(LS(1)).file
    /\ UNCHANGED library_state
    /\ SyncUnchanged

\* sync_library on a fresh installation, for every list of files
InitSync ==
    /\ InitProcess
    /\ DistinctTitles
    /\ auth = [d \in Downloaders |-> TRUE]
    /\ owner = [i \in Items |-> 1]
    /\ max_retries = MaxRetries
    /\ max_concurrent_downloads = MaxConcurrent
    /\ cleanup_aax = TRUE
    /\ \E files \in FileLists : fn_args = [files |-> files]
    /\ fn_result = [stage |-> "scanning", next |-> 1, stats |-> FreshStats]

NextSync == SyncScanFile \/ SyncReturn

SpecSync == InitSync /\ [][NextSync]_vars

(* ------------------- the cleanup pass called on a text ------------------ *)
\* Texts of up to MaxText characters over the dash, the space and a letter.
CleanupCharacters == {"-", " ", "a"}
CleanupTexts == UNION {[1..n -> CleanupCharacters] : n \in 0..MaxText}

\* _cleanup_pattern is called on the text
cleanup_called ==
    /\ fn_result = <<>>
    /\ fn_result' = <<_cleanup_pattern(fn_args.text)>>
    /\ FunctionUnchanged

InitCleanup == InitFunction /\ \E text \in CleanupTexts : fn_args = [text |-> text]

NextCleanup == cleanup_called

SpecCleanup == InitCleanup /\ [][NextCleanup]_vars

(* ------------------------------- claims -------------------------------- *)
InConvert(i) == pc[i] \in {"convert", "embed"}
InDownload(i) == pc[i] \in {"license", "fetch"}

\* C1: for max_retries >= 1, every failed attempt but the last has written
\* RETRYING once, the last failed attempt of max_retries has written ERROR once
\* (error message, error kind and attempt count in the entry) and ended
\* download_book with None; nothing is written after ERROR.
C1_RetryThenError ==
    \A i \in Items :
        max_retries >= 1 =>
            /\ nRetrying[i] = (IF nFailed[i] < max_retries THEN nFailed[i]
                               ELSE max_retries - 1)
            /\ nError[i] = (IF nFailed[i] = max_retries THEN 1 ELSE 0)
            /\ nFailed[i] = max_retries =>
                  /\ pc[i] = "done"
                  /\ result[i] = ReturnedNone
                  /\ queue.entries[i].state = ERROR
                  /\ {"error", "error_type"} \subseteq DOMAIN queue.entries[i]
                  /\ queue.entries[i].attempts = max_retries

\* an item whose two attempts have both failed
C1_Witness ==
    \E i \in Items :
        /\ max_retries = 2
        /\ nFailed[i] = 2
        /\ nRetrying[i] = 1
        /\ nError[i] = 1
        /\ result[i] = ReturnedNone

\* C2: of the items of one download_books call, at most one is in the convert
\* sub-step (the tool run and the metadata embedding after it).
C2_OneConvertPerCall ==
    \A d \in Downloaders : Cardinality({i \in ItemsOf(d) : InConvert(i)}) <= 1

\* one item converts while another item of the same call waits for the permit
C2_Witness ==
    \E i, j \in Items :
        /\ owner[i] = owner[j]
        /\ InConvert(i)
        /\ pc[j] = "wait_decrypt"

\* C3: at most one conversion tool runs in the process, whichever
\* download_books call its item belongs to.
C3_OneToolRunInProcess ==
    Cardinality({i \in Items : pc[i] = "convert"}) <= 1

\* C4: of the items of one download_books call, at most
\* max_concurrent_downloads are between the license request and the end of
\* the ciphertext fetch.
C4_DownloadGate ==
    \A d \in Downloaders :
        Cardinality({i \in ItemsOf(d) : InDownload(i)}) <= max_concurrent_downloads

\* the gate is full and an item of the call waits at it
C4_Witness ==
    \E d \in Downloaders :
        /\ Cardinality({i \in ItemsOf(d) : InDownload(i)}) = max_concurrent_downloads
        /\ download_semaphore[d] = 0
        /\ \E j \in ItemsOf(d) : pc[j] = "acquire"

\* C5: download_books never ends by an item's exception; what it returns has
\* one outcome per submitted item, in submission order, each a path, None or
\* the exception the item raised, and every item has run to its outcome.
C5_OneOutcomePerItem ==
    \A d \in Downloaders :
        /\ batch[d] # "raised"
        /\ batch[d] = "returned" =>
              LET sub == Submitted(d, NumItems)
              IN  /\ Len(results[d]) = Cardinality(ItemsOf(d))
                  /\ \A k \in 1..Len(sub) :
                        /\ pc[sub[k]] = "done"
                        /\ results[d][k] = result[sub[k]]
                        /\ results[d][k].kind \in {"path", "None", "exception"}

\* a call has returned, one item having raised and a later one a path
C5_Witness ==
    \E i, j \in Items :
        /\ i < j
        /\ batch[1] = "returned"
        /\ results[1][i] = ReturnedException
        /\ results[1][j].kind = "path"

\* C6: a download_books call that has started returns.
C6_DownloadBooksReturns == (batch[1] = "running") ~> (batch[1] = "returned")

\* a call has returned after an item waited out a retry
C6_Witness ==
    /\ batch[1] = "returned"
    /\ max_concurrent_downloads < NumItems
    /\ \E i \in Items : nRetrying[i] > 0 /\ result[i].kind = "path"

\* C7: a file in the library that the library ledger records as CONVERTED is
\* the output of a tool run that exited 0 on a completely fetched ciphertext.
C7_LibraryFileIsGood ==
    \A i \in Items :
        (/\ library_file.kind = "json"
         /\ i \in DOMAIN library_file.data
         /\ library_file.data[i].state = CONVERTED
         /\ Exists(m4b_file[library_file.data[i].file_path]))
        => m4b_file[library_file.data[i].file_path] = "good"

\* C8: the queue ledger file and the library ledger file are never left
\* half-written, and loading a queue file that exists never gives the empty
\* ledger.
C8_LedgerFilesWhole ==
    /\ queue_file.kind # "truncated"
    /\ library_file.kind # "truncated"
    /\ queue_file.kind # "absent" => load_queue(queue_file) # EmptyLedger

\* C9: a step that changes the in-memory queue ledger leaves the queue file
\* equal to it.
C9_QueuePersisted ==
    [][queue' # queue => queue_file' = JsonFile(queue')]_vars

\* C10: when two instances have each put the entry of a different item, the
\* library ledger file holds both entries.
C10_NoLostUpdate ==
    \A i, j \in Items :
        (/\ owner[i] # owner[j]
         /\ i \in DOMAIN library_state[owner[i]]
         /\ j \in DOMAIN library_state[owner[j]])
        => /\ library_file.kind = "json"
           /\ {i, j} \subseteq DOMAIN library_file.data

\* the ledger of item i's instance holds a terminal entry for it
InLedger(i) ==
    /\ i \in DOMAIN library_state[owner[i]]
    /\ library_state[owner[i]][i].state = CONVERTED

\* item i's download_book runs from its first line to its first await or return
Starts(i) == pc[i] = "start" /\ pc'[i] # "start"

Stale(i) ==
    /\ InLedger(i)
    /\ ~Exists(m4b_file[library_state[owner[i]][i].file_path])
    /\ ~Exists(m4b_file[FinalPath(i)])

\* the entry of item i is gone from the ledger, in memory and in the file,
\* and download_book has written PENDING and entered its retry loop
Redownloads(i) ==
    /\ i \notin DOMAIN library_state'[owner[i]]
    /\ i \notin DOMAIN load_library_state(library_file')
    /\ pc'[i] = "acquire"
    /\ DictGet(get_download(queue', i), "state", "") = PENDING
    /\ DictGet(get_download(load_queue(queue_file'), i), "state", "") = PENDING
    /\ result'[i] = NotReturned

LedgerChecked(i) ==
    IF Stale(i) THEN DictDel(library_state[owner[i]], i)
    ELSE library_state[owner[i]]

\* download_book reaches the duplicate check and the detector reports a match
DuplicateReported(i) ==
    /\ ~(InLedger(i) /\ ~Stale(i))
    /\ fuzzy_duplicates(LedgerChecked(i), book_title[i]) # {}

\* download_book returns the path of a matching entry as its result
ReturnsMatch(i) ==
    /\ pc'[i] = "done"
    /\ result'[i].kind = "path"
    /\ \E a \in fuzzy_duplicates(LedgerChecked(i), book_title[i]) :
           result'[i].path = LedgerChecked(i)[a].file_path

Inside(dir, root) ==
    /\ Len(root) <= Len(dir)
    /\ SubSeq(dir, 1, Len(root)) = root

\* C14: the duplicate detector called for target library root R never returns
\* an entry whose file lies outside R, whatever the names of the roots.
C14_MatchInsideRoot ==
    \/ fn_result = <<>>
    \/ fn_result[1] = None
    \/ Inside(fn_result[1].file_path.parent, fn_args.target_library_path)

\* the states of the license and fetch part of the pipeline
FetchStates == {LICENSE_REQUESTED, LICENSE_GRANTED, DOWNLOADING, DOWNLOAD_COMPLETE}

\* the state of item i's queue entry ("" when there is none)
EntryState(q, i) == DictGet(get_download(q, i), "state", "")

\* this step writes none of the license and fetch states to item i's entry
WritesNoFetchState(i) ==
    EntryState(queue', i) \in FetchStates
        => EntryState(queue', i) = EntryState(queue, i)

\* C15: an attempt that begins with the ciphertext file in place goes
\* straight to the part after the fetch (the convert step, itself skipped
\* when a converted or the final file is already there) without writing
\* LICENSE_REQUESTED, LICENSE_GRANTED, DOWNLOADING or DOWNLOAD_COMPLETE, and
\* from the convert step on an attempt never goes back to the license
\* request or the fetch nor writes one of these states.
C15_ResumeSkipsFetch ==
    [][\A i \in Items :
        /\ (/\ pc[i] = "acquire"
            /\ pc'[i] # "acquire"
            /\ Exists(aaxc_file[TempKey(i)]))
           => /\ pc'[i] \in {"wait_decrypt", "done"}
              /\ WritesNoFetchState(i)
        /\ pc[i] \in {"wait_decrypt", "convert", "embed"}
           => /\ pc'[i] \notin {"license", "fetch"}
              /\ WritesNoFetchState(i)]_vars

\* a second attempt found the ciphertext of the first and waits for the
\* convert permit, its entry still RETRYING
C15_Witness ==
    \E i \in Items :
        /\ pc[i] = "wait_decrypt"
        /\ attempt[i] > 0
        /\ Exists(aaxc_file[TempKey(i)])
        /\ EntryState(queue, i) = RETRYING

\* item i's convert step has the voucher file but does not start the
\* conversion tool: _check_ffmpeg has raised, the tool was not found
ToolNotFound(i) ==
    /\ pc[i] = "wait_decrypt"
    /\ simple_voucher_file[TempKey(i)]
    /\ pc'[i] \notin {"wait_decrypt", "convert", "start"}

\* C16: when the conversion tool is not found the item ends at once: it is
\* not put in the RETRYING state and no further attempt is made for it.
C16_ToolNotFoundIsFatal ==
    [][\A i \in Items :
        ToolNotFound(i)
        => /\ pc'[i] = "done"
           /\ EntryState(queue', i) # RETRYING]_vars

\* the batch completion flag of the ledger
BatchComplete(q) == DictGet(q.batch_info, "batch_complete", FALSE)

\* C18: the batch completion flag is set only when every item submitted to
\* the running download_books call has finished, whenever the polls of the
\* other thread arrive.
C18_CompleteOnlyWhenAllDone ==
    [][(~BatchComplete(queue) /\ BatchComplete(queue'))
       => \A i \in Items : batch[owner[i]] = "running" => pc[i] = "done"]_vars

\* the current batch has at least one entry and all its entries are
\* CONVERTED or ERROR
CurrentBatchTerminal(q) ==
    /\ CurrentBatchEntries(q) # {}
    /\ \A a \in CurrentBatchEntries(q) : EntryState(q, a) \in {CONVERTED, ERROR}

CurrentBatchId(q) == DictGet(q.batch_info, "current_batch_id", NoBatch)

\* the batch ids the ledger knows: the open batch's and those of its entries
BatchIds(q) ==
    ({CurrentBatchId(q)}
        \cup {DictGet(q.entries[a], "batch_id", NoBatch) : a \in DOMAIN q.entries})
    \ {NoBatch}

\* this step starts a new batch: there was none, or the open one was complete
StartsBatch ==
    /\ CurrentBatchId(queue') # NoBatch
    /\ ~BatchComplete(queue')
    /\ CurrentBatchId(queue) = NoBatch \/ BatchComplete(queue)

\* C19: a batch started by add_to_queue has an id that differs from every
\* earlier batch id.
C19_FreshBatchId ==
    [][StartsBatch => CurrentBatchId(queue') \notin BatchIds(queue)]_vars

\* C20: when an item that already has a queue entry is processed again, the
\* entry belongs to the batch that is current for the new run: its batch_id
\* is the current batch id, and that batch is open (a new one having been
\* started if the previous one was complete).
C20_ReprocessedJoinsCurrentBatch ==
    [][\A i \in Items :
        (Starts(i) /\ pc'[i] = "acquire" /\ i \in DOMAIN queue.entries)
        => /\ DictGet(get_download(queue', i), "batch_id", NoBatch)
                  = CurrentBatchId(queue')
           /\ ~BatchComplete(queue')]_vars

\* C21: clear_completed deletes an entry only if it is CONVERTED, belongs to
\* a batch other than the current one and was last updated before now; the
\* batch metadata is kept.
C21_PruneSparesCurrentBatch ==
    [][\A a \in (DOMAIN queue.entries) \ (DOMAIN queue'.entries) :
            /\ EntryState(queue, a) = CONVERTED
            /\ "batch_id" \in DOMAIN queue.entries[a]
                    => queue.entries[a].batch_id # CurrentBatchId(queue)
            /\ DictGet(queue.entries[a], "last_updated", 0) < now
            /\ queue'.batch_info = queue.batch_info]_vars

\* C22: update_download(id, u1) followed by update_download(id, u2), the two
\* updates naming disjoint fields, leaves the entry of id with every field of
\* u1 and of u2 and the time of the second call as last_updated, creates the
\* entry when it was absent, and leaves every other entry and the batch
\* metadata as they were.
C22_UpsertsMerge ==
    \A asin \in Items, u1 \in UpsertUpdates, u2 \in UpsertUpdates, t2 \in now..MaxTime :
        (DOMAIN u1) \cap (DOMAIN u2) = {} =>
            LET s1 == update_download(QS, asin, u1, now)
                s2 == update_download(s1, asin, u2, t2)
                e  == s2.mem.entries[asin]
            IN  /\ asin \in DOMAIN s2.mem.entries
                /\ \A k \in DOMAIN u1 : k \in DOMAIN e /\ e[k] = u1[k]
                /\ \A k \in DOMAIN u2 : k \in DOMAIN e /\ e[k] = u2[k]
                /\ e.last_updated = t2
                /\ \A b \in Items \ {asin} :
                        /\ b \in DOMAIN s2.mem.entries <=> b \in DOMAIN queue.entries
                        /\ b \in DOMAIN queue.entries
                                => s2.mem.entries[b] = queue.entries[b]
                /\ s2.mem.batch_info = queue.batch_info
                /\ s2.file = JsonFile(s2.mem)

\* an entry created by update_download alone holds the fields of two updates
\* while another entry exists
C22_Witness ==
    \E a \in DOMAIN queue.entries, b \in DOMAIN queue.entries :
        /\ a # b
        /\ "asin" \notin DOMAIN queue.entries[a]
        /\ {"state", "downloaded_bytes", "last_updated"} \subseteq DOMAIN queue.entries[a]

\* the number of bracket groups of a pattern: its pairs of matching brackets
RECURSIVE Groups(_, _)
Groups(pattern, open) ==
    IF pattern = <<>> THEN 0
    ELSE IF Head(pattern) = "[" THEN Groups(Tail(pattern), open + 1)
    ELSE IF Head(pattern) = "]" /\ open > 0 THEN 1 + Groups(Tail(pattern), open - 1)
    ELSE Groups(Tail(pattern), open)

\* [p, q] is an innermost group of text
InnermostGroup(text, p, q) ==
    /\ p < q
    /\ text[p] = "[" /\ text[q] = "]"
    /\ \A k \in (p + 1)..(q - 1) : text[k] \notin {"[", "]"}

\* a placeholder named between p and q resolves to the empty text
EmptyInside(text, p, q, replacements) ==
    \E k \in (p + 1)..(q - 1) :
        text[k] \in DOMAIN replacements /\ replacements[text[k]] = <<>>

\* C23: every iteration takes one innermost group and removes it, brackets
\* and text, if and only if a placeholder named in it resolves to empty, and
\* otherwise leaves its inner text in its place; a pattern of at most 10
\* groups is left without a group; no segment of the returned path is empty.
C23_ConditionalGroups ==
    /\ [][fn_result'.pattern # fn_result.pattern =>
            \E p \in DOMAIN fn_result.pattern, q \in DOMAIN fn_result.pattern :
                /\ InnermostGroup(fn_result.pattern, p, q)
                /\ fn_result'.pattern =
                        SubSeq(fn_result.pattern, 1, p - 1)
                        \o (IF EmptyInside(fn_result.pattern, p, q, fn_args.replacements)
                            THEN <<>>
                            ELSE SubSeq(fn_result.pattern, p + 1, q - 1))
                        \o SubSeq(fn_result.pattern, q + 1, Len(fn_result.pattern))]_vars
    /\ [](fn_result.stage = "returned" =>
            /\ Groups(fn_args.pattern, 0) <= 10 =>
                    ~\E p \in DOMAIN fn_result.pattern, q \in DOMAIN fn_result.pattern :
                        InnermostGroup(fn_result.pattern, p, q)
            /\ \A k \in DOMAIN fn_result.path : fn_result.path[k] # <<>>)

\* the default pattern compiled for a book without series and narrator: the
\* levels are the author, "19 - t" and "t.m4b"
C23_Witness ==
    /\ fn_result.stage = "returned"
    /\ fn_args.pattern = DEFAULT_NAMING_PATTERN
    /\ fn_args.replacements["{Series}"] = <<>>
    /\ fn_args.replacements["{Narrator}"] = <<>>
    /\ fn_args.replacements["{Title}"] = <<"t">>
    /\ fn_result.iteration = 3
    /\ fn_result.path = <<<<"A">>, <<"1", "9", " ", "-", " ", "t">>, <<"t">> \o m4b>>

\* C24: no segment of a returned path has one of < > : " / \ | ? * or a
\* control character, and none is longer than 200 characters.
C24_SegmentsSanitized ==
    fn_result.stage = "returned" =>
        \A k \in DOMAIN fn_result.path :
            /\ \A c \in DOMAIN fn_result.path[k] :
                    fn_result.path[k][c] \notin IllegalCharacters
            /\ Len(fn_result.path[k]) <= 200

\* C25: the score of two texts does not depend on their order.
C25_SimilaritySymmetric ==
    Len(fn_result) = 2 =>
        fn_result[1].num * fn_result[2].den = fn_result[2].num * fn_result[1].den

\* two different texts, one contained in the other, both with a number, have
\* been scored in both orders with a score strictly between 0 and 1
C25_Witness ==
    /\ Len(fn_result) = 2
    /\ fn_args.text1 # fn_args.text2
    /\ in(fn_args.text1, fn_args.text2)
    /\ numbers_of(fn_args.text1) # {}
    /\ 0 < fn_result[1].num /\ fn_result[1].num < fn_result[1].den

AttemptStates ==
    <<LICENSE_REQUESTED, LICENSE_GRANTED, DOWNLOADING, DOWNLOAD_COMPLETE,
      DECRYPTING, CONVERTED>>
StateRank(state) ==
    IF \E k \in DOMAIN AttemptStates : AttemptStates[k] = state
    THEN CHOOSE k \in DOMAIN AttemptStates : AttemptStates[k] = state
    ELSE 0

\* the fields update_download_progress writes
ProgressFields == {"downloaded_bytes", "progress_timestamp", "last_updated"}

\* C27: a step that writes to an item's entry moves its state forward in the
\* order LICENSE_REQUESTED, LICENSE_GRANTED, DOWNLOADING, DOWNLOAD_COMPLETE,
\* DECRYPTING, CONVERTED unless it starts an attempt or ends a failed one;
\* RETRYING and ERROR are written by a failing attempt only; an entry in
\* CONVERTED or ERROR is not written again by the same download_book call.
C27_StatesInOrder ==
    [][\A i \in Items :
        LET old == get_download(queue, i)
            new == get_download(queue', i)
            oldState == EntryState(queue, i)
            newState == EntryState(queue', i)
        IN  new # old =>
                /\ StateRank(oldState) > 0 /\ StateRank(newState) > 0 =>
                        \/ StateRank(oldState) < StateRank(newState)
                        \/ /\ newState = oldState
                           /\ newState = DOWNLOADING
                           /\ \A k \in (DOMAIN new) \ ProgressFields :
                                k \in DOMAIN old /\ new[k] = old[k]
                /\ newState \in {RETRYING, ERROR} => nFailed'[i] = nFailed[i] + 1
                /\ newState = PENDING => oldState = ""
                /\ oldState \notin {CONVERTED, ERROR}]_vars

\* an item has gone through a failed attempt (RETRYING) and then through the
\* whole pipeline to CONVERTED
C27_Witness ==
    \E i \in Items :
        /\ EntryState(queue, i) = CONVERTED
        /\ nRetrying[i] > 0
        /\ pc[i] = "done"

\* item i's queue entry is CONVERTED, the ledger of its downloader has a
\* converted entry for it with the path of the queue entry, and there is a
\* file at that path
ConvertedIsBacked(q, lib, files, i) ==
    LET entry == get_download(q, i)
        ledger == lib[owner[i]]
    IN  /\ "file_path" \in DOMAIN entry
        /\ i \in DOMAIN ledger
        /\ ledger[i].state = CONVERTED
        /\ ledger[i].file_path = entry.file_path
        /\ Exists(files[entry.file_path])

\* C28: CONVERTED is written to the queue after the file is at its final
\* path and after the ledger entry: in the state a step leaves with an item
\* newly CONVERTED, and in every state in which the queue shows it CONVERTED,
\* the downloader's ledger has the converted entry with the queue entry's
\* path and the file exists there.
C28_ConvertedAfterLedgerAndFile ==
    /\ [][\A i \in Items :
            EntryState(queue', i) = CONVERTED /\ EntryState(queue, i) # CONVERTED
                => ConvertedIsBacked(queue', library_state', m4b_file', i)]_vars
    /\ [](\A i \in Items :
            EntryState(queue, i) = CONVERTED
                => ConvertedIsBacked(queue, library_state, m4b_file, i))

\* one item reached CONVERTED through the move of its converted file, another
\* because its file was found at the final path
C28_Witness ==
    \E i \in Items, j \in Items :
        /\ EntryState(queue, i) = CONVERTED /\ nFailed[i] = 0
        /\ "downloaded_bytes" \in DOMAIN get_download(queue, i)
        /\ EntryState(queue, j) = CONVERTED
        /\ "downloaded_bytes" \notin DOMAIN get_download(queue, j)

\* item i's ciphertext has been fetched completely and the voucher could
\* not be decrypted: there is no decrypted voucher file
VoucherDecryptionFailed(i) ==
    /\ aaxc_file[TempKey(i)] = "full"
    /\ ~simple_voucher_file[TempKey(i)]

\* the step in which the fetch of item i completes and the decryption of its
\* voucher fails
VoucherDecryptionFails(i) ==
    /\ pc[i] = "fetch"
    /\ ~VoucherDecryptionFailed(i)
    /\ aaxc_file'[TempKey(i)] = "full"
    /\ ~simple_voucher_file'[TempKey(i)]

\* this step requests a license for item i
RequestsLicense(i) ==
    /\ EntryState(queue', i) = LICENSE_REQUESTED
    /\ get_download(queue', i) # get_download(queue, i)

\* C29: the attempt in which the voucher decryption fails records
\* DOWNLOAD_COMPLETE and goes on to the conversion; from then on no step
\* requests a license or writes a fetch state, the conversion tool is never
\* started, every attempt fails at the convert step, and the call ends with
\* the item in ERROR.
C29_AfterVoucherFailure ==
    /\ [][\A i \in Items :
            /\ VoucherDecryptionFails(i) =>
                    /\ EntryState(queue', i) = DOWNLOAD_COMPLETE
                    /\ pc'[i] = "wait_decrypt"
            /\ VoucherDecryptionFailed(i) =>
                    /\ ~RequestsLicense(i)
                    /\ EntryState(queue', i) # EntryState(queue, i)
                            => EntryState(queue', i) \in {DECRYPTING, RETRYING, ERROR}
                    /\ pc'[i] \in {"wait_decrypt", "sleep", "acquire", "done"}
                    /\ pc[i] = "wait_decrypt" /\ pc'[i] # pc[i]
                            => nFailed'[i] = nFailed[i] + 1
                    /\ VoucherDecryptionFailed(i)']_vars
    /\ [](\A i \in Items :
            VoucherDecryptionFailed(i) /\ pc[i] = "done"
                => /\ EntryState(queue, i) = ERROR
                   /\ result[i] = ReturnedNone)
    /\ \A i \in Items :
            VoucherDecryptionFailed(i)
                ~> (pc[i] = "done" /\ EntryState(queue, i) = ERROR)

\* C29, with exactly one license request in the whole call: the attempt in
\* which the decryption fails is the only one that requests a license.  Every
\* attempt before it started without the ciphertext and requested one, so it
\* has to be the first attempt of the call.
C29_ExactlyOneLicenseRequest ==
    /\ C29_AfterVoucherFailure
    /\ [][\A i \in Items : VoucherDecryptionFails(i) => attempt[i] = 0]_vars

\* an item whose voucher could not be decrypted has ended in ERROR after
\* more than one failed attempt
C29_Witness ==
    \E i \in Items :
        /\ VoucherDecryptionFailed(i)
        /\ pc[i] = "done"
        /\ EntryState(queue, i) = ERROR
        /\ nFailed[i] > 1

\* a convert attempt of item i fails in this step: the tool or the voucher
\* is missing, or the tool has run and failed
ConvertFails(i) ==
    /\ pc[i] \in {"wait_decrypt", "convert"}
    /\ nFailed'[i] = nFailed[i] + 1

\* C30: a step in which a convert attempt fails leaves no temporary output
\* file; none appears before the next attempt, which therefore waits for the
\* convert permit again instead of moving the file; no partial file is ever
\* in the library.
C30_NoOutputAfterFailedConvert ==
    /\ [][\A i \in Items :
            /\ ConvertFails(i) => ~Exists(temp_m4b_file'[TempKey(i)])
            /\ pc[i] = "acquire" /\ nFailed[i] > 0 /\ pc'[i] # pc[i]
                    => pc'[i] \in {"license", "wait_decrypt"}]_vars
    /\ [](\A i \in Items :
            pc[i] \in {"sleep", "acquire"} => ~Exists(temp_m4b_file[TempKey(i)]))
    /\ [](\A t \in Titles : m4b_file[t] # "partial")

\* the conversion of a completely fetched item with a voucher has failed,
\* the output is gone and the next attempt is about to start
C30_Witness ==
    \E i \in Items :
        /\ pc[i] \in {"sleep", "acquire"}
        /\ nFailed[i] > 0
        /\ aaxc_file[TempKey(i)] = "full"
        /\ simple_voucher_file[TempKey(i)]
        /\ ~Exists(temp_m4b_file[TempKey(i)])

\* C31: in the report get_statistics returns on the ledger as it is,
\* batch_complete implies that no entry of the current batch is active or
\* queued.
C31_CompleteReportHasNoWork ==
    LET stats == get_statistics(queue)
    IN  stats.batch_complete => stats.active = 0 /\ stats.queued = 0

\* an attempt of item i fails in the fetch step in this step
FetchFails(i) ==
    /\ pc[i] = "fetch"
    /\ nFailed'[i] = nFailed[i] + 1

\* C33: a step in which an attempt fails in the fetch step leaves no
\* ciphertext file, and an attempt that starts without ever having completed
\* a fetch requests a license.
C33_NoCiphertextAfterFailedFetch ==
    [][\A i \in Items :
        /\ FetchFails(i) => ~Exists(aaxc_file'[TempKey(i)])
        /\ pc[i] = "acquire" /\ nFailed[i] > 0 /\ pc'[i] # pc[i]
            /\ aaxc_file[TempKey(i)] # "full"
                => pc'[i] = "license"]_vars

\* item i has received bytes of the ciphertext under a license of its own:
\* update_download_progress has written them into its ledger entry
HasFetched(i) == "downloaded_bytes" \in DOMAIN get_download(queue, i)

\* C32: in a fresh installation an item whose conversion tool runs, or has
\* run, has fetched the ciphertext it consumes under its own license.
C32_ConvertsOwnCiphertext ==
    \A i \in Items : pc[i] \in {"convert", "embed"} => HasFetched(i)

\* download_book has written item i's entry and has returned
ReturnedAfterPending(i) ==
    /\ pc[i] = "done"
    /\ result[i] # ReturnedException
    /\ get_download(queue, i) # EmptyDict

\* C34: once download_book has put an item in PENDING and has returned, the
\* item's state is CONVERTED when a path was returned and ERROR when None
\* was returned, for every max_retries from 0 on.
C34_ReturnAgreesWithState ==
    \A i \in Items :
        ReturnedAfterPending(i) =>
            IF result[i] = ReturnedNone
            THEN EntryState(queue, i) = ERROR
            ELSE EntryState(queue, i) = CONVERTED

\* C35: the path download_book returns for an instance with library root L
\* lies in L or below it.
C35_ReturnedPathUnderRoot ==
    \/ fn_result = <<>>
    \/ Inside(fn_result[1].parent, fn_args.library_path)

\* C36: the last segment of the path returned for a pattern that
\* validate_pattern accepts ends with ".m4b".
C36_LastSegmentHasExtension ==
    fn_result.stage = "returned" /\ validate_pattern(fn_args.pattern) =>
        /\ fn_result.path # <<>>
        /\ endswith(fn_result.path[Len(fn_result.path)], m4b)

\* two dashes of the text with nothing but whitespace between them
DashesInARow(text) ==
    \E k, l \in DOMAIN text :
        /\ k < l
        /\ text[k] = "-"
        /\ text[l] = "-"
        /\ \A m \in (k + 1)..(l - 1) : IsSpace(text[m])

\* C37: the text the cleanup pass returns does not begin with a dash, does
\* not end with one, and has no two dashes in a row.
C37_CleanupLeavesSingleDashes ==
    fn_result # <<>> =>
        LET text == fn_result[1]
        IN  /\ text # <<>> => text[1] # "-" /\ text[Len(text)] # "-"
            /\ ~DashesInARow(text)

\* the score lies within [0, 1]
ScoreInRange(score) == 0 <= score.num /\ score.num <= score.den /\ 0 < score.den

\* C38: the score of two texts lies within [0, 1], and is 1.0 when the two
\* texts are equal after normalisation, the empty text included.
C38_ScoreInRangeAndOneWhenEqual ==
    fn_result # <<>> =>
        /\ ScoreInRange(fn_result[1])
        /\ normalize_for_matching(fn_args.text1) = normalize_for_matching(fn_args.text2)
                => fn_result[1].num = fn_result[1].den

\* the files of the scan from which no identifier could be recovered
WithoutIdentifier ==
    {k \in DOMAIN fn_args.files : extract_asin_from_m4b(fn_args.files[k]) = NoAsin}

\* C39: when sync_library has returned, errors is the number of scanned
\* files without a recoverable identifier, files_scanned = asins_found +
\* errors, every file has been scanned and no ledger entry points to a file
\* without identifier.
C39_ErrorsCountFilesWithoutIdentifier ==
    fn_result.stage = "returned" =>
        /\ fn_result.stats.files_scanned = Len(fn_args.files)
        /\ fn_result.stats.errors = Cardinality(WithoutIdentifier)
        /\ fn_result.stats.files_scanned
                = fn_result.stats.asins_found + fn_result.stats.errors
        /\ \A a \in DOMAIN library_state[1] :
                library_state[1][a].file_path \notin WithoutIdentifier

\* local book k has, after normalisation, author word similarity >= 0.7 and
\* title similarity >= 0.6 with the catalog book
SimilarBook(audible_book, local_book) ==
    LET author == _calculate_word_similarity(
                        normalize_for_matching(audible_book.authors),
                        normalize_for_matching(local_book.authors))
        title == calculate_similarity(
                        normalize_for_matching(audible_book.title),
                        normalize_for_matching(local_book.title))
    IN  /\ 10 * author.num >= 7 * author.den
        /\ 10 * title.num >= 6 * title.den

\* C40: the fuzzy match reports the catalog book as available exactly when
\* some local book is similar to it in author and title; the two titles of
\* the test by one author match.
C40_FuzzyMatchIffSimilarBook ==
    fn_result # <<>> =>
        /\ fn_result[1] <=>
                \E k \in DOMAIN fn_args.local_books :
                    SimilarBook(fn_args.audible_book, fn_args.local_books[k])
        /\ (/\ fn_args.audible_book.title = AudibleExample
            /\ fn_args.audible_book.authors # <<>>
            /\ \E k \in DOMAIN fn_args.local_books :
                    /\ fn_args.local_books[k].title = LocalExample
                    /\ fn_args.local_books[k].authors = fn_args.audible_book.authors)
                => fn_result[1]

\* the catalog book "ex vitro - c23 - Band 1" has been matched with the
\* local book "Ex Vitro: c23, 1" of the same author, which is the second
\* local book, the first being by someone else
C40_Witness ==
    /\ fn_result = <<TRUE>>
    /\ fn_args.audible_book = [title |-> AudibleExample, authors |-> <<"a", " ", "b">>]
    /\ fn_args.local_books =
            <<[title |-> LocalExample, authors |-> <<>>],
              [title |-> LocalExample, authors |-> <<"a", " ", "b">>]>>
    /\ normalize_for_matching(AudibleExample) = normalize_for_matching(LocalExample)
    /\ normalize_for_matching(AudibleExample) =
            <<"e", "x", " ", "v", "i", "t", "r", "o", " ", "c", "2", "3", " ", "1">>

====
